---- MODULE Spec2Model ----
(***************************************************************************)
(* Verification model of the serverless handlers of this repository:       *)
(*   - the OMDb proxy           (src/api/omdb.js, first handler, l. 1-282)  *)
(*   - the jobs-snapshot aggregator (src/unnamed/part_005)                 *)
(*   - headless-scrape-all-portals (src/unnamed/part_003 and               *)
(*     src/api/headless-scrape-all-portals.js)                             *)
(*   - jobs-scraper-background (src/api/jobs-scraper-background.js) and    *)
(*     jobs-refresh (src/api/jobs-cached.js, second handler)               *)
(* Time is an integer.  In the OMDb part one unit is a millisecond; in the *)
(* jobs part one unit is a minute (the dates of that code are whole        *)
(* minutes apart) and the time waited for sources is in milliseconds; in   *)
(* the portals and refresh parts one unit is a second.                     *)
(***************************************************************************)
EXTENDS Integers, Sequences, FiniteSets, TLC

VARIABLES
    now,            \* OMDb: the wall clock, Date.now(), in ms
    ticks,          \* OMDb: number of clock advances so far
    env,            \* OMDb: process.env (fixed at start of the instance)
    omdbDaily,      \* OMDb: global.__omdbDaily  = [date, count]
    omdbStats,      \* OMDb: global.__omdbStats.daily : date -> tallies
    rateLimitMap,   \* OMDb: rateLimitMap : ip -> list of admitted times
    pending,        \* OMDb: handler invocations suspended at `await fetch`, per call
    served,         \* OMDb: number of requests received so far
    lastResp,       \* OMDb: the response sent by the last step (NoReply: none)
    upstreamCalls,  \* OMDb: number of fetches issued to OMDb (history)
    admitLog,       \* OMDb: ip -> all times checkRateLimit admitted (history)
    jenv,           \* jobs: process.env (KV configured, ENABLE_HEADLESS)
    jclock,         \* jobs: the wall clock, Date.now(), in minutes
    jpc,            \* jobs: the await the handler is suspended at
    jreq,           \* jobs: the request being served
    jnow,           \* jobs: `now` (l. 360)
    jjobs,          \* jobs: `jobs`, the listings pushed so far
    jcached,        \* jobs: `cachedHeadlessJobs`
    jrss,           \* jobs: the promises of the RSS step, per feed
    jresp,          \* jobs: the response sent (NoResponse: none yet)
    jfetched,       \* jobs: every listing read so far, in processing order (history)
    jdelivered,     \* jobs: number of sources that answered with items (history)
    jfailed,        \* jobs: some source has failed (history)
    jwaited,        \* jobs: ms spent in the awaits settled, and in the current one (history)
    penv,           \* portals: process.env and the build deployed
    pclock,         \* portals: the wall clock, Date.now(), in seconds
    pticks,         \* portals: number of clock advances so far
    pserved,        \* portals: number of requests received so far
    ppc,            \* portals: the await the handler is suspended at
    preq,           \* portals: the request being served
    pkv,            \* portals: the KV key jobs:scraped:all-portals
    pbrowser,       \* portals: `browser`: none, open, closed or gone
    pcursor,        \* portals: `cursor` of the worker pool
    pworker,        \* portals: worker -> the task it runs (0: it left its loop)
    ptask,          \* portals: task -> where it stands, its page, its result
    ppages,         \* portals: the pages opened, each open, closed or gone
    presults,       \* portals: `headlessResults` / the settled scrapers
    pout,           \* portals: `results`
    pjobs,          \* portals: `allJobs`
    pcalled,        \* portals: the time kv.setex was called at
    presp,          \* portals: the response sent (PortalNone: none yet)
    plog,           \* portals: the steps of the request so far (history)
    renv,           \* refresh: process.env (KV configured, ENABLE_HEADLESS)
    rclock,         \* refresh: the wall clock, Date.now(), in seconds
    rticks,         \* refresh: number of clock advances so far
    rserved,        \* refresh: number of requests received so far
    rpc,            \* refresh: the await the handler is suspended at
    rreq,           \* refresh: the request being served
    rheld,          \* refresh: the upstream reply the handler holds
    rkv,            \* refresh: the KV key jobs:scraped:all
    rresp,          \* refresh: the response sent (RefreshNone: none yet)
    rread           \* refresh: what the last kv.get of the key returned, and when

omdbVars == <<now, ticks, env, omdbDaily, omdbStats, rateLimitMap, pending,
              served, lastResp, upstreamCalls, admitLog>>

jobsVars == <<jenv, jclock, jpc, jreq, jnow, jjobs, jcached, jrss, jresp,
              jfetched, jdelivered, jfailed, jwaited>>

portalVars == <<penv, pclock, pticks, pserved, ppc, preq, pkv, pbrowser, pcursor,
                pworker, ptask, ppages, presults, pout, pjobs, pcalled, presp, plog>>

refreshVars == <<renv, rclock, rticks, rserved, rpc, rreq, rheld, rkv, rresp, rread>>

vars == <<omdbVars, jobsVars, portalVars, refreshVars>>

\* the handler a specification leaves out serves nothing
JobsParked ==
    /\ jenv = <<>> /\ jclock = 0 /\ jpc = "off" /\ jreq = <<>> /\ jnow = 0
    /\ jjobs = <<>> /\ jcached = <<>> /\ jrss = <<>> /\ jresp = <<>>
    /\ jfetched = <<>> /\ jdelivered = 0 /\ jfailed = FALSE /\ jwaited = <<>>
PortalsParked ==
    /\ penv = <<>> /\ pclock = 0 /\ pticks = 0 /\ pserved = 0 /\ ppc = "off"
    /\ preq = <<>> /\ pkv = <<>> /\ pbrowser = "none" /\ pcursor = 0 /\ pworker = <<>>
    /\ ptask = <<>> /\ ppages = <<>> /\ presults = <<>> /\ pout = <<>> /\ pjobs = <<>>
    /\ pcalled = 0 /\ presp = <<>> /\ plog = <<>>
RefreshParked ==
    /\ renv = <<>> /\ rclock = 0 /\ rticks = 0 /\ rserved = 0 /\ rpc = "off"
    /\ rreq = <<>> /\ rheld = <<>> /\ rkv = <<>> /\ rresp = <<>> /\ rread = <<>>
OmdbParked ==
    /\ now = 0 /\ ticks = 0 /\ env = <<>> /\ omdbDaily = <<>> /\ omdbStats = <<>>
    /\ rateLimitMap = <<>> /\ pending = <<>> /\ served = 0 /\ lastResp = <<>>
    /\ upstreamCalls = 0 /\ admitLog = <<>>

(***************************************************************************)
(* Generic helpers                                                         *)
(***************************************************************************)
Max(a, b) == IF a >= b THEN a ELSE b
Min(a, b) == IF a <= b THEN a ELSE b

\* ======================================================================
\*                         OMDb proxy
\* ======================================================================

\* ---- program constants ----
DAILY_LIMIT == 1000
MAX_TITLE_LENGTH == 200
STATS_DAYS == 31
rateLimitWindowMs == 60000
\* length of one UTC day in ms: toISOString().slice(0, 10) changes every DayMs
DayMs == 86400000

\* ---- bounds of the model ----
MaxEvents == 4          \* requests received plus clock advances in one run

\* the clock advances by one of these amounts (ms)
TickSteps == {1, rateLimitWindowMs, rateLimitWindowMs + 1}
\* the instance starts one rate-limit window before midnight UTC of day 1
StartTime == DayMs - rateLimitWindowMs

\* new Date().toISOString().slice(0, 10): the UTC date, as a day number
Today(t) == t \div DayMs
NoDate == -1            \* the initial date '' of the daily counter

\* ---- inputs ----
IPs == {"ip1", "ip2"}
Secret == "s3cret"
\* imdb ids as character sequences
IdGood == <<"t", "t", "1", "3">>
IdBad == <<"t", "t", "x">>
Digits == {"0", "1", "2", "3", "4", "5", "6", "7", "8", "9"}

\* /^tt\d+$/.test(idQuery)
IsImdbId(i) ==
    /\ Len(i) >= 3
    /\ i[1] = "t" /\ i[2] = "t"
    /\ \A k \in 3..Len(i) : i[k] \in Digits

CATEGORIES == {"movies", "kdrama", "anime", "bollywood"}
SOURCES == {"website", "vercel_app", "manual", "form_bot", "other"}
TYPES == {"search", "detail", "poster"}

\* A query: usage / stats flags, s and t given by their trimmed length,
\* i as a character sequence, category and source as sent.
Query(u, st, s, i, t, c, src) ==
    [t |-> t, i |-> i, s |-> s, usage |-> u, stats |-> st,
     category |-> c, source |-> src]

QUsage == Query("1", "1", 0, <<>>, 0, "", "")                     \* usage and stats
QUsageAll == Query("1", "", 5, IdGood, 5, "movies", "website")    \* usage + s + i + t
QStats == Query("", "1", 5, IdGood, 5, "", "")                    \* stats + s + i + t
QSearch == Query("", "", 5, <<>>, 0, "movies", "website")         \* search
QDetail == Query("", "", MAX_TITLE_LENGTH + 1, IdGood, 0, "", "") \* s too long, by id
QPoster == Query("", "", 0, IdBad, MAX_TITLE_LENGTH, "bogus", "bogus") \* bad id, poster
QNone == Query("", "", 0, <<>>, MAX_TITLE_LENGTH + 1, "", "")     \* title too long

\* origins, as the sequence of their parts
NoOrigin == <<>>
OriginApp == <<"https://", "app.example">>
OriginOther == <<"https://", "other.test">>
Origins == {NoOrigin, OriginApp, OriginOther}
\* the value '*' of Access-Control-Allow-Origin
Star == <<"*">>

\* a request: method, X-API-Key, client ip, origin (of the Origin header, or
\* of the Referer; NoOrigin without both) and query
Request(m, k, ip, origin, q) ==
    [ip |-> ip, origin |-> origin, method |-> m, apiKey |-> k, query |-> q]

\* the requests of the model: the queries from ip1 with the right key, and
\* some from another caller, without or with a wrong key, or by another method
Requests ==
    { Request("GET", Secret, "ip1", OriginApp, q) : q \in {QUsageAll, QSearch} }
    \cup { Request("GET", Secret, "ip1", OriginOther, q) : q \in {QStats, QDetail, QNone} }
    \cup { Request("GET", Secret, "ip1", NoOrigin, QPoster),
           Request("GET", Secret, "ip2", NoOrigin, QPoster),
           Request("GET", "", "ip1", OriginOther, QSearch),
           Request("GET", "wrong", "ip1", OriginApp, QUsage),
           Request("OPTIONS", "", "ip1", OriginOther, QPoster),
           Request("POST", Secret, "ip1", OriginApp, QSearch) }

\* process.env: OMDB_API_KEY, API_SECRET, RATE_LIMIT_PER_MINUTE (parsed) and
\* ALLOWED_ORIGINS (split, trimmed, without its empty entries)
Envs ==
    { [OMDB_API_KEY |-> "k", API_SECRET |-> Secret, RATE_LIMIT_PER_MINUTE |-> 0,
       ALLOWED_ORIGINS |-> <<>>],
      [OMDB_API_KEY |-> "k", API_SECRET |-> Secret, RATE_LIMIT_PER_MINUTE |-> 2,
       ALLOWED_ORIGINS |-> <<OriginApp>>],
      [OMDB_API_KEY |-> "", API_SECRET |-> "", RATE_LIMIT_PER_MINUTE |-> 2,
       ALLOWED_ORIGINS |-> <<OriginApp>>] }

\* (mutant of getApiSecret: no secret is ever configured)
getApiSecretNone(e) == ""
\* (mutant of getKey: a placeholder stands for a missing key)
getKeyPlaceholder(e) == IF e.OMDB_API_KEY = "" THEN "none" ELSE e.OMDB_API_KEY

\* getKey(), getApiSecret()
getKey(e) == e.OMDB_API_KEY
getApiSecret(e) == e.API_SECRET

\* String.prototype.endsWith
endsWith(s, o) == Len(o) <= Len(s) /\ SubSeq(s, Len(s) - Len(o) + 1, Len(s)) = o
\* allowedOrigin(origin)
allowedOrigin(origin, e) ==
    IF origin = NoOrigin THEN TRUE
    ELSE IF e.ALLOWED_ORIGINS = <<>> THEN TRUE
    ELSE \E k \in DOMAIN e.ALLOWED_ORIGINS :
            e.ALLOWED_ORIGINS[k] = origin \/ endsWith(origin, e.ALLOWED_ORIGINS[k])
\* origin || '*'
OrStar(origin) == IF origin = NoOrigin THEN Star ELSE origin
\* setCors (l. 197-199), and the same expression at l. 170 and 176
setCors(origin, e) == IF allowedOrigin(origin, e) THEN OrStar(origin) ELSE Star
\* the header of the answer to OPTIONS (l. 139)
PreflightCors(origin, e) == IF allowedOrigin(origin, e) THEN OrStar(origin) ELSE <<>>

\* ---- daily counter ----
\* getGlobalDaily(): the counter, reset when the UTC date has changed
getGlobalDaily(d, t) ==
    IF d.date # Today(t) THEN [date |-> Today(t), count |-> 0] ELSE d

\* getDailyCount()
getDailyCount(d, t) == getGlobalDaily(d, t).count

\* incrementDaily(): the counter after the increment
incrementDaily(d, t) ==
    [getGlobalDaily(d, t) EXCEPT !.count = @ + 1]

\* ---- stats ----
getSource(q) == IF q.source \in SOURCES THEN q.source ELSE "other"
getCategory(q) == IF q.category \in CATEGORIES THEN q.category ELSE ""

EmptyDay ==
    [count |-> 0,
     byType |-> [x \in TYPES |-> 0],
     byCategory |-> [x \in CATEGORIES |-> 0],
     bySource |-> [x \in SOURCES |-> 0]]

\* the dates kept by the trim loop: the STATS_DAYS most recent ones
TrimDates(dates) ==
    { d \in dates : Cardinality({e \in dates : e > d}) < STATS_DAYS }

\* recordRequest(type, category, source)
recordRequest(stats, type, category, source, t) ==
    LET today == Today(t)
        old == IF today \in DOMAIN stats THEN stats[today] ELSE EmptyDay
        new == [count |-> old.count + 1,
                byType |-> [old.byType EXCEPT ![type] = @ + 1],
                byCategory |-> IF category \in CATEGORIES
                               THEN [old.byCategory EXCEPT ![category] = @ + 1]
                               ELSE old.byCategory,
                bySource |-> [old.bySource EXCEPT ![source] = @ + 1]]
        dates == DOMAIN stats \cup {today}
    IN  [d \in TrimDates(dates) |-> IF d = today THEN new ELSE stats[d]]

\* ---- rate limit ----
\* (mutant of DropOld: an entry exactly one window old is dropped too)
RECURSIVE DropOldInclusive(_, _)
DropOldInclusive(times, t) ==
    IF times # <<>> /\ Head(times) <= t - rateLimitWindowMs
    THEN DropOldInclusive(Tail(times), t)
    ELSE times

\* the list after the shift loop: leading entries older than the window go
RECURSIVE DropOld(_, _)
DropOld(times, t) ==
    IF times # <<>> /\ Head(times) < t - rateLimitWindowMs
    THEN DropOld(Tail(times), t)
    ELSE times

\* (mutant of checkRateLimit: a refused request is recorded as well)
checkRateLimitRecording(map, ip, limit, t) ==
    IF limit <= 0 THEN [map |-> map, err |-> 0]
    ELSE LET times0 == IF ip \in DOMAIN map THEN map[ip] ELSE <<>>
             times == DropOld(times0, t)
             with(l) == [i \in DOMAIN map \cup {ip} |-> IF i = ip THEN l ELSE map[i]]
         IN  [map |-> with(Append(times, t)), err |-> IF Len(times) >= limit THEN 60 ELSE 0]

\* checkRateLimit(ip): [map, err]; err = 0 is null, else retryAfter
checkRateLimit(map, ip, limit, t) ==
    IF limit <= 0 THEN [map |-> map, err |-> 0]
    ELSE LET times0 == IF ip \in DOMAIN map THEN map[ip] ELSE <<>>
             times == DropOld(times0, t)
             with(l) == [i \in DOMAIN map \cup {ip} |-> IF i = ip THEN l ELSE map[i]]
         IN  IF Len(times) >= limit
             THEN [map |-> with(times), err |-> 60]
             ELSE [map |-> with(Append(times, t)), err |-> 0]

\* ---- responses ----
\* a response: status, Retry-After header (0: not set), error text of the
\* body ("" when none), usage.dailyCount of the body (<<>> when the body
\* has no usage), what else the body holds, and the
\* Access-Control-Allow-Origin header
Reply(status, retryAfter, error, usage, body, acao) ==
    [usage |-> usage, status |-> status, retryAfter |-> retryAfter,
     error |-> error, body |-> body, acao |-> acao]
NoReply == Reply(0, 0, "", <<>>, "", <<>>)

\* usagePayload().dailyCount, as a one-element tuple
usagePayload(d, t) == <<getDailyCount(d, t)>>

\* what the synchronous part of the handler leaves behind: the globals, and
\* either a response (fetch = "") or a fetch of the given request type
Respond(d, stats, map, admitted, reply) ==
    [stats |-> stats, map |-> map, admitted |-> admitted, reply |-> reply,
     daily |-> d, fetch |-> ""]
Fetch(d, stats, map, admitted, type) ==
    [stats |-> stats, map |-> map, admitted |-> admitted, reply |-> NoReply,
     daily |-> d, fetch |-> type]

\* (mutant of UsageOnly: the flag is compared with another spelling)
UsageOnlyTrue(q) == q.usage = "true"

\* req.query.usage === '1'  /  req.query.stats === '1'
UsageOnly(q) == q.usage = "1"
StatsOnly(q) == q.stats = "1"

\* (mutant of AtDailyLimit: the comparison is off by one)
AtDailyLimitOffByOne(d, t) == getDailyCount(d, t) > DAILY_LIMIT

\* the daily limit test of the handler: getDailyCount() >= DAILY_LIMIT
AtDailyLimit(d, t) == getDailyCount(d, t) >= DAILY_LIMIT

\* lines 195-281 up to the fetch: the counter is incremented, then the request
\* is routed to search, by-id or poster (or refused with 400)
Route(q, origin, d, stats, map, admitted, t) ==
    LET d1 == incrementDaily(d, t)
        cat == getCategory(q)
        src == getSource(q)
    IN  IF q.s > 0 /\ q.s <= MAX_TITLE_LENGTH
        THEN Fetch(d1, recordRequest(stats, "search", cat, src, t), map, admitted, "search")
        ELSE IF q.i # <<>> /\ IsImdbId(q.i)
        THEN Fetch(d1, recordRequest(stats, "detail", cat, src, t), map, admitted, "detail")
        ELSE IF q.t = 0 \/ q.t > MAX_TITLE_LENGTH
        THEN Respond(d1, stats, map, admitted,
                     Reply(400, 0, "Missing or invalid title", usagePayload(d1, t), "poster",
                           OrStar(origin)))
        ELSE Fetch(d1, recordRequest(stats, "poster", cat, src, t), map, admitted, "poster")

\* lines 168-195: usage, stats, key and daily-limit checks, after the caller
\* passed the rate limit
AfterRateLimit(req, e, d, stats, map, admitted, t) ==
    IF UsageOnly(req.query)
    THEN Respond(getGlobalDaily(d, t), stats, map, admitted,
                 Reply(200, 0, "", usagePayload(d, t), "usage", setCors(req.origin, e)))
    ELSE IF StatsOnly(req.query)
    THEN Respond(d, stats, map, admitted,
                 Reply(200, 0, "", <<>>, "stats", setCors(req.origin, e)))
    ELSE IF getKey(e) = ""
    THEN Respond(getGlobalDaily(d, t), stats, map, admitted,
                 Reply(503, 0, "OMDb proxy not configured", usagePayload(d, t), "poster",
                       OrStar(req.origin)))
    ELSE IF AtDailyLimit(d, t)
    THEN Respond(getGlobalDaily(d, t), stats, map, admitted,
                 Reply(429, 0, "Daily API limit reached", usagePayload(d, t), "",
                       OrStar(req.origin)))
    ELSE Route(req.query, req.origin, d, stats, map, admitted, t)

\* the handler up to its first await (lines 133-281), run at time t
HandlerSync(req, e, d, stats, map, t) ==
    IF req.method = "OPTIONS"
    THEN Respond(d, stats, map, FALSE,
                 Reply(204, 0, "", <<>>, "", PreflightCors(req.origin, e)))
    ELSE IF req.method # "GET"
    THEN Respond(getGlobalDaily(d, t), stats, map, FALSE,
                 Reply(405, 0, "Method not allowed", usagePayload(d, t), "poster",
                       OrStar(req.origin)))
    ELSE IF getApiSecret(e) # "" /\ req.apiKey # getApiSecret(e)
    THEN Respond(getGlobalDaily(d, t), stats, map, FALSE,
                 Reply(401, 0, "Invalid or missing API key", usagePayload(d, t), "poster",
                       OrStar(req.origin)))
    ELSE LET rl == checkRateLimit(map, req.ip, e.RATE_LIMIT_PER_MINUTE, t)
         IN  IF rl.err # 0
             THEN Respond(getGlobalDaily(d, t), stats, rl.map, FALSE,
                          Reply(429, rl.err, "Too many requests", usagePayload(d, t),
                                "poster", OrStar(req.origin)))
             ELSE AfterRateLimit(req, e, d, stats, rl.map,
                                 e.RATE_LIMIT_PER_MINUTE > 0, t)

\* what OMDb answers to a fetch: the fetch rejects, the body is no JSON,
\* Response is "False", or a record is found
UpstreamReplies == {"throw", "nojson", "false", "found"}
\* a call to OMDb: its type and the origin of the request it is made for
Calls == TYPES \X Origins

\* the url fetched (l. 210, 237, 270), of which the model keeps the type of
\* the call and the key
UpstreamUrl(type, key) == [type |-> type, apikey |-> key]
\* what a failing fetch rejects with: an error whose message names the url
FetchError(url) == [message |-> url]

\* (mutant of UpstreamError: the message of the error is sent to the client)
UpstreamErrorEcho(err, type, origin, d, t) ==
    Reply(502, 0, err.message.apikey, usagePayload(d, t), type, OrStar(origin))

\* the catch blocks (l. 227-230, 256-259, 278-281)
UpstreamError(err, type, origin, d, t) ==
    Reply(502, 0, "Upstream error", usagePayload(d, t), type, OrStar(origin))

\* (mutant of HandlerResume: a title OMDb does not know is answered 404)
HandlerResume404(type, up, origin, e, d, t) ==
    IF up = "throw"
    THEN UpstreamError(FetchError(UpstreamUrl(type, getKey(e))), type, origin, d, t)
    ELSE IF type = "detail" /\ up = "nojson"
    THEN Reply(200, 0, "Not found", usagePayload(d, t), "", setCors(origin, e))
    ELSE IF type = "detail" /\ up = "false"
    THEN Reply(404, 0, "Not found", usagePayload(d, t), "", setCors(origin, e))
    ELSE Reply(200, 0, "", usagePayload(d, t), type, setCors(origin, e))
\* the handler after `await fetch` (lines 212-230, 239-259, 272-281)
HandlerResume(type, up, origin, e, d, t) ==
    IF up = "throw"
    THEN UpstreamError(FetchError(UpstreamUrl(type, getKey(e))), type, origin, d, t)
    ELSE IF type = "detail" /\ up \in {"nojson", "false"}
    THEN Reply(200, 0, "Not found", usagePayload(d, t), "", setCors(origin, e))
    ELSE Reply(200, 0, "", usagePayload(d, t), type, setCors(origin, e))

\* ---- the state machine ----

ColdDaily == [date |-> NoDate, count |-> 0]
\* a warm instance: after poster calls up to one below the limit on the start day
WarmDaily == [date |-> Today(StartTime), count |-> DAILY_LIMIT - 1]
WarmStats ==
    [d \in {Today(StartTime)} |->
        [EmptyDay EXCEPT !.count = DAILY_LIMIT - 1,
                         !.byType["poster"] = DAILY_LIMIT - 1,
                         !.bySource["other"] = DAILY_LIMIT - 1]]

OmdbInit ==
    /\ now = StartTime
    /\ ticks = 0
    /\ env \in Envs
    /\ \/ omdbDaily = ColdDaily /\ omdbStats = <<>>
       \/ /\ env.OMDB_API_KEY # "" /\ env.RATE_LIMIT_PER_MINUTE = 0
          /\ omdbDaily = WarmDaily /\ omdbStats = WarmStats
    /\ rateLimitMap = <<>>
    /\ pending = [c \in Calls |-> 0]
    /\ served = 0
    /\ lastResp = NoReply
    /\ upstreamCalls = 0
    /\ admitLog = [i \in IPs |-> <<>>]
    /\ JobsParked
    /\ PortalsParked
    /\ RefreshParked

\* a request arrives and the handler runs up to its first await
OmdbRequest(req) ==
    /\ served + ticks < MaxEvents
    /\ LET out == HandlerSync(req, env, omdbDaily, omdbStats, rateLimitMap, now)
       IN  /\ served' = served + 1
           /\ omdbDaily' = out.daily
           /\ omdbStats' = out.stats
           /\ rateLimitMap' = out.map
           /\ admitLog' = IF out.admitted
                          THEN [admitLog EXCEPT ![req.ip] = Append(@, now)]
                          ELSE admitLog
           /\ IF out.fetch = ""
              THEN /\ lastResp' = out.reply
                   /\ UNCHANGED <<pending, upstreamCalls>>
              ELSE /\ pending' = [pending EXCEPT ![<<out.fetch, req.origin>>] = @ + 1]
                   /\ upstreamCalls' = upstreamCalls + 1
                   /\ lastResp' = NoReply
    /\ UNCHANGED <<now, ticks, env, jobsVars, portalVars, refreshVars>>

\* OMDb answers a pending fetch and the handler responds
OmdbResume(call, up) ==
    /\ pending[call] > 0
    /\ pending' = [pending EXCEPT ![call] = @ - 1]
    /\ lastResp' = HandlerResume(call[1], up, call[2], env, omdbDaily, now)
    /\ omdbDaily' = getGlobalDaily(omdbDaily, now)
    /\ UNCHANGED <<now, ticks, env, omdbStats, rateLimitMap, served, upstreamCalls,
                   admitLog, jobsVars, portalVars, refreshVars>>

\* time passes
Tick(d) ==
    /\ served + ticks < MaxEvents
    /\ now' = now + d
    /\ ticks' = ticks + 1
    /\ lastResp' = NoReply
    /\ UNCHANGED <<env, omdbDaily, omdbStats, rateLimitMap, pending, served,
                   upstreamCalls, admitLog, jobsVars, portalVars, refreshVars>>

OmdbNext ==
    \/ \E req \in Requests : OmdbRequest(req)
    \/ \E call \in Calls, up \in UpstreamReplies : OmdbResume(call, up)
    \/ \E d \in TickSteps : Tick(d)

SpecOmdb == OmdbInit /\ [][OmdbNext]_vars

\* ======================================================================
\*                     Properties of the OMDb proxy
\* ======================================================================

\* req is a GET for a search, a by-ID lookup or a poster (no usage, no stats)
IsDataGet(req) ==
    req.method = "GET" /\ req.query.usage # "1" /\ req.query.stats # "1"
\* req passes the caller-key check of lines 151-158
PassesKeyCheck(req) == env.API_SECRET = "" \/ req.apiKey = env.API_SECRET
\* the counter stands at the limit for the current UTC date
CounterAtLimit == omdbDaily = [date |-> Today(now), count |-> DAILY_LIMIT]
\* the effect the claim C1 gives to a request made at the limit
RefusedByBudget ==
    /\ lastResp'.status = 429
    /\ upstreamCalls' = upstreamCalls
    /\ pending' = pending
    /\ omdbDaily' = omdbDaily
\* the first request handled on a new UTC date finds the counter at 0: after
\* it the counter belongs to the new date and counts at most that request,
\* and exactly that request when it goes on to OMDb
SeesReset(req) ==
    /\ omdbDaily'.date = Today(now)
    /\ omdbDaily'.count <= 1
    /\ (env.OMDB_API_KEY # "" /\ (env.RATE_LIMIT_PER_MINUTE = 0 \/ admitLog' # admitLog))
          => omdbDaily'.count = 1

\* C1 as stated: the daily counter never exceeds DAILY_LIMIT; once it equals
\* DAILY_LIMIT for the current UTC date, EVERY further search / by-ID / poster
\* GET is answered 429, issues no upstream call and leaves the counter
\* unchanged; the first such request of the next UTC date sees the counter
\* reset to 0.
C1_AsStated ==
    /\ [](omdbDaily.count <= DAILY_LIMIT)
    /\ [][\A req \in Requests :
            (OmdbRequest(req) /\ IsDataGet(req))
            => /\ CounterAtLimit => RefusedByBudget
               /\ (omdbDaily.date # Today(now) /\ PassesKeyCheck(req)) => SeesReset(req)]_vars

\* C1, amended: the same, for the requests that pass the caller-key check (a
\* request with a missing or wrong X-API-Key is answered 401 before the
\* budget is looked at).
C1_DailyBudget ==
    /\ [](omdbDaily.count <= DAILY_LIMIT)
    /\ [][\A req \in Requests :
            (OmdbRequest(req) /\ IsDataGet(req) /\ PassesKeyCheck(req))
            => /\ CounterAtLimit => RefusedByBudget
               /\ omdbDaily.date # Today(now) => SeesReset(req)]_vars

\* C1 witness: a request has just been refused by the daily budget, the
\* counter standing at the limit
C1_Witness ==
    /\ omdbDaily.count = DAILY_LIMIT
    /\ lastResp.status = 429
    /\ lastResp.error = "Daily API limit reached"

\* C2: a GET with usage=1 or stats=1 issues no upstream call, never increments
\* the daily counter (the counter is left alone, or reset to 0 when the UTC
\* date has changed) and leaves the per-day stats table as it is, whatever
\* else the query holds and whatever the counter's value.
C2_UsageReadOnly ==
    [][\A req \in Requests :
        (OmdbRequest(req) /\ req.method = "GET"
            /\ (req.query.usage = "1" \/ req.query.stats = "1"))
        => /\ upstreamCalls' = upstreamCalls
           /\ pending' = pending
           /\ omdbDaily' \in {omdbDaily, [date |-> Today(now), count |-> 0]}
           /\ omdbDaily'.count <= omdbDaily.count
           /\ omdbStats' = omdbStats]_vars

\* C2 witness: the usage payload has just been served while the counter
\* stands at the limit and calls have been made
C2_Witness ==
    /\ lastResp.status = 200
    /\ lastResp.body = "usage"
    /\ lastResp.usage = <<DAILY_LIMIT>>
    /\ upstreamCalls > 0

\* req reaches checkRateLimit with a limit of 2 per minute configured
ReachesLimiter(req) ==
    /\ req.method = "GET"
    /\ PassesKeyCheck(req)
    /\ env.RATE_LIMIT_PER_MINUTE = 2
\* checkRateLimit admits / refuses the request of this step
Admitted(req) == admitLog' = [admitLog EXCEPT ![req.ip] = Append(@, now)]
Refused(req) ==
    /\ admitLog' = admitLog
    /\ lastResp'.status = 429
    /\ lastResp'.retryAfter = 60
    /\ pending' = pending

\* C3 as stated: with 2 requests per minute, for one caller IP the 1st and 2nd
\* requests are admitted, a 3rd one inside the 60 s window opened by the 1st
\* is answered 429 with Retry-After, and a request made 60 s OR MORE after
\* the 1st admitted one is admitted again.
C3_AsStated ==
    [][\A req \in Requests :
        (OmdbRequest(req) /\ ReachesLimiter(req))
        => LET A == admitLog[req.ip]
           IN  /\ Len(A) < 2 => Admitted(req)
               /\ (Len(A) = 2 /\ now < A[1] + rateLimitWindowMs) => Refused(req)
               /\ (Len(A) = 2 /\ now >= A[1] + rateLimitWindowMs) => Admitted(req)]_vars

\* C3, amended: the same, but the window is closed at both ends: a request is
\* admitted again only MORE than 60 s after the 1st admitted one; a request
\* exactly 60 000 ms after it is still answered 429.
C3_RateWindow ==
    [][\A req \in Requests :
        (OmdbRequest(req) /\ ReachesLimiter(req))
        => LET A == admitLog[req.ip]
           IN  /\ Len(A) < 2 => Admitted(req)
               /\ (Len(A) = 2 /\ now <= A[1] + rateLimitWindowMs) => Refused(req)
               /\ (Len(A) = 2 /\ now > A[1] + rateLimitWindowMs) => Admitted(req)]_vars

\* C3 witness: a caller has been admitted twice, then once more after the
\* window of the first admission had gone by
C3_Witness ==
    \E ip \in IPs :
        /\ Len(admitLog[ip]) = 3
        /\ admitLog[ip][3] > admitLog[ip][1] + rateLimitWindowMs

\* ======================================================================
\*                      Jobs snapshot aggregator
\* ======================================================================
\* A JavaScript string is the sequence of its characters; '' (and every
\* other falsy value: undefined, null) is the empty sequence.

\* ---- program constants (part_005 l. 14-18) ----
TIMEOUT_MS == 12000
RSS_TIMEOUT_MS == 15000
DEFAULT_DAYS == 7
DEFAULT_LIMIT == 180
MAX_LIMIT == 400
MIN_LIMIT == 10         \* the lower clamp of `limit`, l. 346
MAX_DAYS == 30          \* the upper clamp of `days`, l. 345

DayMin == 24 * 60       \* one day, in minutes

ROLE_TIER_1 == <<
    <<"d", "a", "t", "a", " ", "a", "n", "a", "l", "y", "s", "t">>,   \* 'data analyst'
    <<"s", "e", "n", "i", "o", "r", " ", "d", "a", "t", "a", " ", "a", "n", "a", "l", "y", "s", "t">>,   \* 'senior data analyst'
    <<"s", "e", "n", "i", "o", "r", " ", "a", "n", "a", "l", "y", "s", "t">>,   \* 'senior analyst'
    <<"b", "u", "s", "i", "n", "e", "s", "s", " ", "a", "n", "a", "l", "y", "s", "t">>,   \* 'business analyst'
    <<"p", "r", "o", "d", "u", "c", "t", " ", "a", "n", "a", "l", "y", "s", "t">>,   \* 'product analyst'
    <<"d", "e", "c", "i", "s", "i", "o", "n", " ", "s", "c", "i", "e", "n", "t", "i", "s", "t">>,   \* 'decision scientist'
    <<"b", "i", " ", "d", "e", "v", "e", "l", "o", "p", "e", "r">>,   \* 'bi developer'
    <<"b", "u", "s", "i", "n", "e", "s", "s", " ", "i", "n", "t", "e", "l", "l", "i", "g", "e", "n", "c", "e", " ", "d", "e", "v", "e", "l", "o", "p", "e", "r">>,   \* 'business intelligence developer'
    <<"a", "n", "a", "l", "y", "t", "i", "c", "s", " ", "e", "n", "g", "i", "n", "e", "e", "r">>,   \* 'analytics engineer'
    <<"b", "i", " ", "a", "n", "a", "l", "y", "s", "t">>,   \* 'bi analyst'
    <<"a", "n", "a", "l", "y", "t", "i", "c", "s", " ", "a", "n", "a", "l", "y", "s", "t">>,   \* 'analytics analyst'
    <<"f", "i", "n", "a", "n", "c", "i", "a", "l", " ", "a", "n", "a", "l", "y", "s", "t">>,   \* 'financial analyst'
    <<"m", "a", "r", "k", "e", "t", "i", "n", "g", " ", "a", "n", "a", "l", "y", "s", "t">>,   \* 'marketing analyst'
    <<"o", "p", "e", "r", "a", "t", "i", "o", "n", "s", " ", "a", "n", "a", "l", "y", "s", "t">>   \* 'operations analyst'
>>

ROLE_TIER_2 == <<
    <<"j", "u", "n", "i", "o", "r", " ", "d", "a", "t", "a", " ", "s", "c", "i", "e", "n", "t", "i", "s", "t">>,   \* 'junior data scientist'
    <<"a", "s", "s", "o", "c", "i", "a", "t", "e", " ", "d", "a", "t", "a", " ", "s", "c", "i", "e", "n", "t", "i", "s", "t">>,   \* 'associate data scientist'
    <<"d", "a", "t", "a", " ", "s", "c", "i", "e", "n", "t", "i", "s", "t">>,   \* 'data scientist'
    <<"m", "l", " ", "e", "n", "g", "i", "n", "e", "e", "r">>,   \* 'ml engineer'
    <<"m", "a", "c", "h", "i", "n", "e", " ", "l", "e", "a", "r", "n", "i", "n", "g", " ", "e", "n", "g", "i", "n", "e", "e", "r">>   \* 'machine learning engineer'
>>

ROLE_TIER_3_EXCLUDE == <<
    <<"d", "a", "t", "a", " ", "e", "n", "g", "i", "n", "e", "e", "r">>,   \* 'data engineer'
    <<"s", "e", "n", "i", "o", "r", " ", "d", "a", "t", "a", " ", "e", "n", "g", "i", "n", "e", "e", "r">>,   \* 'senior data engineer'
    <<"b", "i", "g", " ", "d", "a", "t", "a", " ", "e", "n", "g", "i", "n", "e", "e", "r">>,   \* 'big data engineer'
    <<"c", "l", "o", "u", "d", " ", "d", "a", "t", "a", " ", "e", "n", "g", "i", "n", "e", "e", "r">>,   \* 'cloud data engineer'
    <<"e", "t", "l", " ", "e", "n", "g", "i", "n", "e", "e", "r">>,   \* 'etl engineer'
    <<"d", "a", "t", "a", " ", "i", "n", "f", "r", "a", "s", "t", "r", "u", "c", "t", "u", "r", "e", " ", "e", "n", "g", "i", "n", "e", "e", "r">>   \* 'data infrastructure engineer'
>>

keywords == <<
    <<"d", "a", "t", "a", " ", "a", "n", "a", "l", "y", "s", "t">>,   \* 'data analyst'
    <<"a", "n", "a", "l", "y", "s", "t">>,   \* 'analyst'
    <<"b", "u", "s", "i", "n", "e", "s", "s", " ", "a", "n", "a", "l", "y", "s", "t">>,   \* 'business analyst'
    <<"p", "r", "o", "d", "u", "c", "t", " ", "a", "n", "a", "l", "y", "s", "t">>,   \* 'product analyst'
    <<"d", "e", "c", "i", "s", "i", "o", "n", " ", "s", "c", "i", "e", "n", "t", "i", "s", "t">>,   \* 'decision scientist'
    <<"b", "i">>,   \* 'bi'
    <<"b", "u", "s", "i", "n", "e", "s", "s", " ", "i", "n", "t", "e", "l", "l", "i", "g", "e", "n", "c", "e">>,   \* 'business intelligence'
    <<"a", "n", "a", "l", "y", "t", "i", "c", "s">>,   \* 'analytics'
    <<"a", "n", "a", "l", "y", "t", "i", "c", "s", " ", "e", "n", "g", "i", "n", "e", "e", "r">>,   \* 'analytics engineer'
    <<"d", "a", "t", "a", " ", "s", "c", "i", "e", "n", "t", "i", "s", "t">>,   \* 'data scientist'
    <<"m", "a", "c", "h", "i", "n", "e", " ", "l", "e", "a", "r", "n", "i", "n", "g">>,   \* 'machine learning'
    <<"m", "l", " ", "e", "n", "g", "i", "n", "e", "e", "r">>,   \* 'ml engineer'
    <<"d", "a", "t", "a">>,   \* 'data'
    <<"r", "e", "m", "o", "t", "e">>   \* 'remote'
>>

AnalystWords == <<
    <<"a", "n", "a", "l", "y", "s", "t">>,   \* 'analyst'
    <<"a", "n", "a", "l", "y", "t", "i", "c", "s">>,   \* 'analytics'
    <<"b", "i">>,   \* 'bi'
    <<"b", "u", "s", "i", "n", "e", "s", "s", " ", "i", "n", "t", "e", "l", "l", "i", "g", "e", "n", "c", "e">>   \* 'business intelligence'
>>

RemoteWords == <<
    <<"r", "e", "m", "o", "t", "e">>,   \* 'remote'
    <<"w", "o", "r", "k", " ", "f", "r", "o", "m", " ", "h", "o", "m", "e">>,   \* 'work from home'
    <<"w", "f", "h">>,   \* 'wfh'
    <<"a", "n", "y", "w", "h", "e", "r", "e">>,   \* 'anywhere'
    <<"d", "i", "s", "t", "r", "i", "b", "u", "t", "e", "d">>   \* 'distributed'
>>

IndiaCityWords == <<
    <<"p", "u", "n", "e">>,   \* 'pune'
    <<"m", "u", "m", "b", "a", "i">>,   \* 'mumbai'
    <<"t", "h", "a", "n", "e">>,   \* 'thane'
    <<"n", "a", "v", "i", " ", "m", "u", "m", "b", "a", "i">>,   \* 'navi mumbai'
    <<"h", "y", "d", "e", "r", "a", "b", "a", "d">>,   \* 'hyderabad'
    <<"b", "a", "n", "g", "a", "l", "o", "r", "e">>,   \* 'bangalore'
    <<"b", "e", "n", "g", "a", "l", "u", "r", "u">>,   \* 'bengaluru'
    <<"c", "h", "e", "n", "n", "a", "i">>,   \* 'chennai'
    <<"d", "e", "l", "h", "i">>,   \* 'delhi'
    <<"d", "e", "l", "h", "i", "-", "n", "c", "r">>,   \* 'delhi-ncr'
    <<"g", "u", "r", "g", "a", "o", "n">>,   \* 'gurgaon'
    <<"n", "o", "i", "d", "a">>   \* 'noida'
>>

IndiaWords == <<
    <<"i", "n", "d", "i", "a">>,   \* 'india'
    <<"i", "n">>   \* 'in'
>>


\* ---- string literals of the handler ----
SP == <<" ">>
STR == [
    Remote |-> <<"R", "e", "m", "o", "t", "e">>,
    India |-> <<"I", "n", "d", "i", "a">>,
    Untitled |-> <<"U", "n", "t", "i", "t", "l", "e", "d">>,
    Unknown |-> <<"U", "n", "k", "n", "o", "w", "n">>,
    Hash |-> <<"#">>,
    other |-> <<"o", "t", "h", "e", "r">>,
    http |-> <<"h", "t", "t", "p">>,
    remoteok_com |-> <<"h", "t", "t", "p", "s", ":", "/", "/", "r", "e", "m", "o", "t", "e", "o", "k", ".", "c", "o", "m">>,
    undefined |-> <<"u", "n", "d", "e", "f", "i", "n", "e", "d">>,
    job_ |-> <<"j", "o", "b", "_">>,
    us |-> <<"_">>,
    rss_ |-> <<"_", "r", "s", "s", "_">>
]
\* source names
SRC == [
    remoteok |-> <<"r", "e", "m", "o", "t", "e", "o", "k">>,
    remotive |-> <<"r", "e", "m", "o", "t", "i", "v", "e">>,
    weworkremotely |-> <<"w", "e", "w", "o", "r", "k", "r", "e", "m", "o", "t", "e", "l", "y">>,
    jobscollider |-> <<"j", "o", "b", "s", "c", "o", "l", "l", "i", "d", "e", "r">>,
    wellfound |-> <<"w", "e", "l", "l", "f", "o", "u", "n", "d">>,
    indeed |-> <<"i", "n", "d", "e", "e", "d">>,
    workingnomads |-> <<"w", "o", "r", "k", "i", "n", "g", "n", "o", "m", "a", "d", "s">>,
    wwr_headless |-> <<"w", "e", "w", "o", "r", "k", "r", "e", "m", "o", "t", "e", "l", "y", "_", "h", "e", "a", "d", "l", "e", "s", "s">>,
    headless |-> <<"h", "e", "a", "d", "l", "e", "s", "s">>,
    headless_multi |-> <<"h", "e", "a", "d", "l", "e", "s", "s", "_", "m", "u", "l", "t", "i">>,
    indeed_headless |-> <<"i", "n", "d", "e", "e", "d", "_", "h", "e", "a", "d", "l", "e", "s", "s">>,
    linkedin_headless |-> <<"l", "i", "n", "k", "e", "d", "i", "n", "_", "h", "e", "a", "d", "l", "e", "s", "s">>,
    cached |-> <<"c", "a", "c", "h", "e", "d">>,
    cached_headless |-> <<"c", "a", "c", "h", "e", "d", "_", "h", "e", "a", "d", "l", "e", "s", "s">>
]

\* ---- strings ----
UpperCase == <<"A", "B", "C", "D", "E", "F", "G", "H", "I", "J", "K", "L", "M",
               "N", "O", "P", "Q", "R", "S", "T", "U", "V", "W", "X", "Y", "Z">>
LowerCaseLetters == <<"a", "b", "c", "d", "e", "f", "g", "h", "i", "j", "k", "l", "m",
                      "n", "o", "p", "q", "r", "s", "t", "u", "v", "w", "x", "y", "z">>
DigitChars == <<"0", "1", "2", "3", "4", "5", "6", "7", "8", "9">>
Range(f) == { f[i] : i \in DOMAIN f }
AlphaNum == Range(UpperCase) \cup Range(LowerCaseLetters) \cup Range(DigitChars)
WordChars == AlphaNum \cup {"_"}                    \* \w

\* String.prototype.toLowerCase
LowerChar(c) ==
    IF c \in Range(UpperCase)
    THEN LowerCaseLetters[CHOOSE i \in DOMAIN UpperCase : UpperCase[i] = c]
    ELSE c
toLowerCase(t) == [i \in 1..Len(t) |-> LowerChar(t[i])]

\* p occurs in t at index i
StartsAt(t, p, i) ==
    /\ i + Len(p) - 1 <= Len(t)
    /\ \A k \in 1..Len(p) : t[i + k - 1] = p[k]
\* String.prototype.includes / startsWith
Includes(t, p) == \E i \in 1..(Len(t) - Len(p) + 1) : StartsAt(t, p, i)
startsWith(t, p) == StartsAt(t, p, 1)

\* \b between t[i-1] and t[i]
WordBoundary(t, i) ==
    (i > 1 /\ t[i - 1] \in WordChars) # (i <= Len(t) /\ t[i] \in WordChars)
\* /(^|\b)(w1|w2|...)(\b|$)/.test(t)
TestWords(t, words) ==
    \E w \in Range(words) : \E i \in 1..(Len(t) - Len(w) + 1) :
        /\ StartsAt(t, w, i)
        /\ i = 1 \/ WordBoundary(t, i)
        /\ WordBoundary(t, i + Len(w)) \/ i + Len(w) = Len(t) + 1
\* /(w1|w2|...)/.test(t)
TestAny(t, words) == \E w \in Range(words) : Includes(t, w)

\* .replace(/[^a-zA-Z0-9]/g, '_')
Sanitize(t) == [i \in 1..Len(t) |-> IF t[i] \in AlphaNum THEN t[i] ELSE "_"]

\* String.prototype.trim (the only white space of the model is ' ')
RECURSIVE TrimLeft(_)
TrimLeft(t) == IF t # <<>> /\ Head(t) = " " THEN TrimLeft(Tail(t)) ELSE t
RECURSIVE TrimRight(_)
TrimRight(t) ==
    IF t # <<>> /\ t[Len(t)] = " " THEN TrimRight(SubSeq(t, 1, Len(t) - 1)) ELSE t
trim(t) == TrimRight(TrimLeft(t))

\* a || b
Or(a, b) == IF a # <<>> THEN a ELSE b

\* ---- pure functions of part_005 ----
clamp(n, min, max) == Max(min, Min(max, n))

containsAny(text, kws) ==
    LET t == toLowerCase(text) IN \E i \in DOMAIN kws : Includes(t, kws[i])

includesAnyPhrase(text, phrases) ==
    LET t == toLowerCase(text)
        hits == { i \in DOMAIN phrases : phrases[i] # <<>> /\ Includes(t, phrases[i]) }
    IN  IF hits = {} THEN <<>>
        ELSE phrases[CHOOSE i \in hits : \A k \in hits : i <= k]

locationRank(location) ==
    LET loc == toLowerCase(location)
        isRemote == TestWords(loc, RemoteWords)
        india == TestWords(loc, IndiaWords) \/ TestWords(loc, IndiaCityWords)
    IN  IF isRemote /\ india THEN 150
        ELSE IF isRemote THEN 120
        ELSE IF india THEN 80
        ELSE 0

roleTierRank(title, description) ==
    LET t == toLowerCase(title)
        desc == toLowerCase(description)
        fullText == t \o SP \o desc
        excludeHit == includesAnyPhrase(fullText, ROLE_TIER_3_EXCLUDE)
        hit1 == includesAnyPhrase(t, ROLE_TIER_1)
        hit2 == includesAnyPhrase(t, ROLE_TIER_2)
    IN  IF excludeHit # <<>>
        THEN IF ~TestAny(fullText, AnalystWords)
             THEN [tier |-> "excluded", score |-> -100]
             ELSE [tier |-> "tier3", score |-> 30]
        ELSE IF hit1 # <<>> THEN [tier |-> "tier1", score |-> 200]
        ELSE IF hit2 # <<>> THEN [tier |-> "tier2", score |-> 120]
        ELSE IF TestWords(t, AnalystWords) THEN [tier |-> "tier3", score |-> 60]
        ELSE [tier |-> "other", score |-> 0]

\* The experience requirement a text states, as the patterns of
\* experienceLevelMatch read it: `range` is the pair captured by the first
\* of expPatterns that matches (<<>>: none matches), `single`, `mid` and
\* `plus` tell whether singlePatterns, the mid-level pattern and the
\* "2+ years" pattern match.
Exp(range, single, mid, plus) ==
    [range |-> range, single |-> single, mid |-> mid, plus |-> plus]
NoExp == Exp(<<>>, FALSE, FALSE, FALSE)

experienceLevelMatch(e) ==
    LET min == e.range[1]
        max == e.range[2]
    IN  IF e.range # <<>> /\ ( (min <= 3 /\ max >= 2) \/ (min = 2 /\ max = 3)
                              \/ (min <= 2 /\ max >= 3) )
        THEN 50
        ELSE IF e.range # <<>> /\ min <= 2 /\ max >= 3 THEN 30
        ELSE IF e.single THEN 40
        ELSE IF e.mid THEN 25
        ELSE IF e.plus THEN 35
        ELSE 0

\* ---- dates ----
\* A date string is one of
\*   Iso(t)        a string `new Date(s)` parses, denoting the minute t
\*   Ago(n, unit)  "<n> <unit>s ago"
\*   BadDate       a non-empty string neither of the two parses
\*   Undated       absent / empty
Iso(t) == [t |-> t, k |-> "iso"]
Ago(n, unit) == [k |-> "ago", n |-> n, unit |-> unit]
BadDate == [k |-> "bad"]
Undated == [k |-> "none"]
\* d || e for date strings
OrDate(d, e) == IF d.k = "none" THEN e ELSE d

UnitMinutes(unit) ==
    CASE unit = "minute" -> 1
      [] unit = "hour" -> 60
      [] unit = "day" -> 24 * 60
      [] unit = "week" -> 7 * 24 * 60
      [] unit = "month" -> 30 * 24 * 60
      [] unit = "year" -> 365 * 24 * 60

\* parseDateLike(input) called when Date.now() = t; the result is <<time>>
\* for the Date it returns and <<>> for null
parseDateLike(input, t) ==
    IF input.k = "none" THEN <<>>
    ELSE IF input.k = "iso" THEN <<input.t>>
    ELSE IF input.k = "ago" THEN <<t - input.n * UnitMinutes(input.unit)>>
    ELSE <<>>

nowIso(t) == Iso(t)

\* ---- listings ----
\* An upstream item.  The fields carry the names normalizeJob gives them:
\* `title` is RemoteOK's `position`, `url` an RSS item's `link`, `date` is
\* `publication_date`, `pubDate` or `date`, `location` Remotive's
\* `candidate_required_location`.  Items carry no tags.
Item(id, title, company, location, url, description, source, date, e) ==
    [source |-> source, date |-> date, url |-> url, location |-> location,
     title |-> title, description |-> description, id |-> id,
     company |-> company, exp |-> e]

\* normalizeJob(j) called when Date.now() = t; rnd is the string
\* Math.random().toString(36).slice(2) yields.  company, tags,
\* dateFormatted and postedAgo are display fields no decision reads and
\* are left out of the record.
normalizeJob(j, t, rnd) ==
    [source |-> Or(j.source, STR.other),
     date |-> OrDate(j.date, nowIso(t)),
     url |-> Or(j.url, STR.Hash),
     location |-> Or(j.location, STR.Remote),
     title |-> Or(j.title, STR.Untitled),
     description |-> j.description,
     id |-> Or(j.id, STR.job_ \o rnd),
     _rank |-> j._rank,
     _roleTier |-> j._roleTier]

\* `role.score < 0` (l. 384, 414, ...) and `j._rank < 0` (l. 676)
isExcludedNever(score) == FALSE
isExcluded(score) == score < 0

\* ---- the ten per-source loops of the handler (l. 378-672) ----
\* kind: which loop; src: the feed's source name (RSS loop only)
KINDS == <<"remoteok", "remotive", "rss", "workingnomads", "wwr", "multi",
           "indeed", "linkedin", "cached">>

\* `full`, the text the keyword filter reads
FullText(kind, it) ==
    CASE kind \in {"remoteok", "remotive", "rss"} ->
            it.title \o SP \o it.description \o SP
      [] kind \in {"workingnomads", "wwr"} ->
            it.title \o SP \o it.description
      [] OTHER ->
            it.title \o SP \o it.company \o SP \o it.location \o SP \o it.description

locScore(kind, it) ==
    CASE kind \in {"rss"} -> locationRank(STR.Remote)
      [] kind = "wwr" -> 120
      [] kind \in {"multi", "cached"} -> locationRank(Or(it.location, STR.India))
      [] OTHER -> locationRank(Or(it.location, STR.Remote))

JobId(kind, src, it, rnd) ==
    CASE kind = "remoteok" -> SRC.remoteok \o STR.us \o Or(it.id, STR.undefined)
      [] kind = "remotive" -> SRC.remotive \o STR.us \o Sanitize(Or(it.id, rnd))
      [] kind = "rss" -> src \o STR.rss_ \o Sanitize(it.url)
      [] kind = "workingnomads" ->
            SRC.workingnomads \o STR.us \o Sanitize(Or(it.id, it.url))
      [] kind = "wwr" -> SRC.wwr_headless \o STR.us \o Sanitize(it.url)
      [] kind = "multi" -> Or(it.source, SRC.headless) \o STR.us \o Sanitize(it.url)
      [] kind = "indeed" -> SRC.indeed_headless \o STR.us \o Sanitize(it.url)
      [] kind = "linkedin" -> SRC.linkedin_headless \o STR.us \o Sanitize(it.url)
      [] kind = "cached" -> Or(it.source, SRC.cached) \o STR.us \o Sanitize(it.url)

JobSource(kind, src, it) ==
    CASE kind = "remoteok" -> SRC.remoteok
      [] kind = "remotive" -> SRC.remotive
      [] kind = "rss" -> src
      [] kind = "workingnomads" -> SRC.workingnomads
      [] kind = "wwr" -> SRC.wwr_headless
      [] kind = "multi" -> Or(it.source, SRC.headless_multi)
      [] kind = "indeed" -> SRC.indeed_headless
      [] kind = "linkedin" -> SRC.linkedin_headless
      [] kind = "cached" -> Or(it.source, SRC.cached_headless)

JobLocation(kind, it) ==
    CASE kind \in {"rss", "wwr"} -> STR.Remote
      [] kind \in {"multi", "cached"} -> Or(it.location, STR.India)
      [] OTHER -> Or(it.location, STR.Remote)

JobUrl(kind, it) ==
    IF kind = "remoteok" /\ ~startsWith(it.url, STR.http)
    THEN STR.remoteok_com \o it.url
    ELSE it.url

JobDate(kind, it, t) ==
    IF kind \in {"wwr", "indeed"} THEN nowIso(t) ELSE OrDate(it.date, nowIso(t))

\* the job one loop body pushes for item `it` when Date.now() = t
Candidate(kind, src, it, t, rnd) ==
    LET role == roleTierRank(it.title, it.description)
    IN  normalizeJob(
            [source |-> JobSource(kind, src, it),
             date |-> JobDate(kind, it, t),
             url |-> JobUrl(kind, it),
             location |-> JobLocation(kind, it),
             title |-> IF kind = "rss" THEN trim(it.title) ELSE it.title,
             description |-> it.description,
             id |-> JobId(kind, src, it, rnd),
             _rank |-> role.score + locScore(kind, it) + experienceLevelMatch(it.exp),
             _roleTier |-> role.tier],
            t, rnd)

\* the `continue` / `return` tests of one loop body
HasTitleAndUrl(it) == it.title # <<>> /\ it.url # <<>>
Pushed(kind, it) ==
    /\ HasTitleAndUrl(it)
    /\ containsAny(FullText(kind, it), keywords)
    /\ ~isExcluded(roleTierRank(it.title, it.description).score)

\* one whole loop: the jobs pushed for `items`, in order
RECURSIVE PushAll(_, _, _, _, _)
PushAll(kind, src, items, t, rnds) ==
    IF items = <<>> THEN <<>>
    ELSE (IF Pushed(kind, Head(items))
          THEN <<Candidate(kind, src, Head(items), t, Head(rnds))>>
          ELSE <<>>)
         \o PushAll(kind, src, Tail(items), t, Tail(rnds))

\* ---- the tail of the handler (l. 674-730) ----
RECURSIVE FilterRank(_)
FilterRank(jobs) ==
    IF jobs = <<>> THEN <<>>
    ELSE (IF isExcluded(Head(jobs)._rank) THEN <<>> ELSE <<Head(jobs)>>)
         \o FilterRank(Tail(jobs))

IsFresh(j, nowT, maxAge, t) ==
    LET dt == parseDateLike(j.date, t)
    IN  dt # <<>> /\ (nowT - dt[1]) <= maxAge

RECURSIVE FilterFresh(_, _, _, _)
FilterFresh(jobs, nowT, maxAge, t) ==
    IF jobs = <<>> THEN <<>>
    ELSE (IF IsFresh(Head(jobs), nowT, maxAge, t) THEN <<Head(jobs)>> ELSE <<>>)
         \o FilterFresh(Tail(jobs), nowT, maxAge, t)

DedupeNone(jobs, seen) == jobs
RECURSIVE DedupeLast(_, _)
DedupeLast(jobs, seen) ==
    IF jobs = <<>> THEN <<>>
    ELSE IF \E k \in 2..Len(jobs) : jobs[k].url = Head(jobs).url
         THEN DedupeLast(Tail(jobs), seen)
         ELSE <<Head(jobs)>> \o DedupeLast(Tail(jobs), seen)
RECURSIVE Dedupe(_, _)
Dedupe(jobs, seen) ==
    IF jobs = <<>> THEN <<>>
    ELSE IF Head(jobs).url = <<>> \/ Head(jobs).url \in seen
         THEN Dedupe(Tail(jobs), seen)
         ELSE <<Head(jobs)>> \o Dedupe(Tail(jobs), seen \cup {Head(jobs).url})

\* the comparator of jobs.sort: negative when a goes first
DateTime(j, t) ==
    LET d == parseDateLike(j.date, t) IN IF d = <<>> THEN 0 ELSE d[1]
CompareAscending(a, b, t) ==
    IF b._rank # a._rank THEN a._rank - b._rank
    ELSE DateTime(a, t) - DateTime(b, t)
Compare(a, b, t) ==
    IF b._rank # a._rank THEN b._rank - a._rank
    ELSE DateTime(b, t) - DateTime(a, t)

\* Array.prototype.sort is stable: insert each job after the last one that
\* does not go after it
RECURSIVE Insert(_, _, _)
Insert(sorted, j, t) ==
    IF sorted = <<>> THEN <<j>>
    ELSE IF Compare(Head(sorted), j, t) <= 0
         THEN <<Head(sorted)>> \o Insert(Tail(sorted), j, t)
         ELSE <<j>> \o sorted
RECURSIVE Sort(_, _)
Sort(jobs, t) ==
    IF jobs = <<>> THEN <<>>
    ELSE Insert(Sort(SubSeq(jobs, 1, Len(jobs) - 1), t), jobs[Len(jobs)], t)

sliceAll(jobs, limit) == jobs
slice(jobs, limit) == SubSeq(jobs, 1, Min(Len(jobs), limit))

\* ---- requests, environment, upstream answers ----
\* a query parameter: absent, a string parseInt reads as the integer n, or
\* a string parseInt reads as NaN
NoParam == [k |-> "none"]
IntParam(n) == [k |-> "int", n |-> n]
TextParam == [k |-> "text"]
\* parseInt(String(p || dflt), 10) || dflt
parseIntOr(p, dflt) == IF p.k = "int" /\ p.n # 0 THEN p.n ELSE dflt

JobsRequest(m, host, days, limit) ==
    [method |-> m, query |-> [limit |-> limit, days |-> days], host |-> host]

daysOf(req) == clamp(parseIntOr(req.query.days, DEFAULT_DAYS), 1, MAX_DAYS)
limitOf(req) == clamp(parseIntOr(req.query.limit, DEFAULT_LIMIT), MIN_LIMIT, MAX_LIMIT)
baseUrlOf(req) == req.host

\* what a fetch comes to: the promise rejects ("neterr"), the abort timer
\* or the race timer fires ("timeout"), a non-2xx status ("http"), a body
\* that is no JSON ("badjson"), or a JSON body with an `ok` flag and a list
\* of items ("ok")
FailKinds == {"neterr", "timeout", "http", "badjson"}
Failed(kind) == [status |-> kind, items |-> <<>>, ok |-> FALSE]
Answer(ok, items) == [status |-> "ok", items |-> items, ok |-> ok]
EmptyAnswer == Answer(TRUE, <<>>)

\* fetchJson: [threw, data]; data = <<>> is null, <<body>> the parsed body
fetchJsonNoCatch(reply) ==
    IF reply.status = "ok" THEN [threw |-> FALSE, data |-> <<reply>>]
    ELSE IF reply.status = "http" THEN [threw |-> FALSE, data |-> <<>>]
    ELSE [threw |-> TRUE, data |-> <<>>]
fetchJson(reply) ==
    IF reply.status = "ok" THEN [threw |-> FALSE, data |-> <<reply>>]
    ELSE [threw |-> FALSE, data |-> <<>>]

\* fetchRssDirect: the items with a title and a link, [] on any failure
RECURSIVE TitledLinked(_)
TitledLinked(items) ==
    IF items = <<>> THEN <<>>
    ELSE (IF HasTitleAndUrl(Head(items)) THEN <<Head(items)>> ELSE <<>>)
         \o TitledLinked(Tail(items))
fetchRssDirect(reply) ==
    IF reply.status = "ok" THEN TitledLinked(reply.items) ELSE <<>>

\* the list each loop reads out of what fetchJson returned
ListOf(kind, data) ==
    IF data = <<>> THEN <<>>
    ELSE IF kind \in {"remoteok", "remotive"} THEN data[1].items
    ELSE IF data[1].ok THEN data[1].items
    ELSE <<>>

\* the feeds of the RSS step (l. 436-450), in list order
rssFeeds == <<
    [source |-> SRC.remotive, url |-> "https://remotive.com/feed"],
    [source |-> SRC.remotive, url |-> "https://remotive.com/remote-jobs/feed/data"],
    [source |-> SRC.remotive, url |-> "https://remotive.com/remote-jobs/feed/ai-ml"],
    [source |-> SRC.weworkremotely, url |-> "https://weworkremotely.com/remote-jobs.rss"],
    [source |-> SRC.jobscollider, url |-> "https://jobscollider.com/remote-jobs.rss"],
    [source |-> SRC.jobscollider, url |-> "https://jobscollider.com/remote-data-jobs.rss"],
    [source |-> SRC.remoteok, url |-> "https://remoteok.com/remote-jobs.rss"],
    [source |-> SRC.remoteok, url |-> "https://remoteok.io/remote-jobs.rss"],
    [source |-> SRC.wellfound, url |-> "https://wellfound.com/jobs.rss?keywords=data-science&remote=true"],
    [source |-> SRC.wellfound, url |-> "https://wellfound.com/jobs.rss?keywords=data-analyst&remote=true"],
    [source |-> SRC.wellfound, url |-> "https://wellfound.com/jobs.rss?keywords=business-intelligence&remote=true"],
    [source |-> SRC.indeed, url |-> "https://rss.indeed.com/rss?q=data+analyst&l=remote&radius=0"],
    [source |-> SRC.indeed, url |-> "https://rss.indeed.com/rss?q=data+scientist&l=remote&radius=0"]
>>

\* ---- inputs ----
MaxFeeds == 2           \* feeds that answer with items; the others of
                        \* rssFeeds fail or are empty
MaxDelivering == 2      \* sources that answer with a non-empty list
LiveFeeds == { f \in DOMAIN rssFeeds : f % 3 = 1 /\ f \div 3 < MaxFeeds }

JobsEpoch == 100 * DayMin       \* Date.now() when the request arrives

\* the texts of the upstream items
TXT == [
    UrlA |-> <<"h", "t", "t", "p", ":", "/", "/", "a">>,
    UrlB |-> <<"h", "t", "t", "p", ":", "/", "/", "b">>,
    UrlC |-> <<"h", "t", "t", "p", ":", "/", "/", "c">>,
    UrlRel |-> <<"/", "b">>,
    UrlDash |-> <<"h", "t", "t", "p", ":", "/", "/", "c", "-", "d">>,
    UrlDot |-> <<"h", "t", "t", "p", ":", "/", "/", "c", ".", "d">>,
    UrlN |-> <<"h", "t", "t", "p", ":", "/", "/", "n">>,
    DataAnalyst |-> <<"D", "a", "t", "a", " ", "A", "n", "a", "l", "y", "s", "t">>,
    data_scientist |-> <<"d", "a", "t", "a", " ", "s", "c", "i", "e", "n", "t", "i", "s", "t">>,
    DataEngineer |-> <<"D", "a", "t", "a", " ", "E", "n", "g", "i", "n", "e", "e", "r">>,
    BIDeveloper |-> <<"B", "I", " ", "D", "e", "v", "e", "l", "o", "p", "e", "r">>,
    analyst_ |-> <<" ", "a", "n", "a", "l", "y", "s", "t", " ">>,
    analytics_lead |-> <<"a", "n", "a", "l", "y", "t", "i", "c", "s", " ", "l", "e", "a", "d">>,
    big_data_engineer |-> <<"b", "i", "g", " ", "d", "a", "t", "a", " ", "e", "n", "g", "i", "n", "e", "e", "r">>,
    chef |-> <<"c", "h", "e", "f">>,
    analyst |-> <<"a", "n", "a", "l", "y", "s", "t">>,
    RemoteIndia |-> <<"R", "e", "m", "o", "t", "e", ",", " ", "I", "n", "d", "i", "a">>,
    Pune |-> <<"P", "u", "n", "e">>,
    Berlin |-> <<"B", "e", "r", "l", "i", "n">>,
    acme |-> <<"a", "c", "m", "e">>,
    Rnd1 |-> <<"0", ".", "1">>,
    Rnd2 |-> <<"0", ".", "2">>
]
RandomDraws == {TXT.Rnd1, TXT.Rnd2}     \* values of Math.random().toString()

RECURSIVE IntStr(_)
IntStr(i) ==
    IF i < 10 THEN <<DigitChars[i + 1]>>
    ELSE IntStr(i \div 10) \o <<DigitChars[(i % 10) + 1]>>

Meta == Item(<<>>, <<>>, <<>>, <<>>, <<>>, <<>>, <<>>, Undated, NoExp)
StaleScientist ==
    Item(IntStr(3), TXT.data_scientist, TXT.acme, <<>>, TXT.UrlA, <<>>, <<>>,
         Iso(JobsEpoch - 40 * DayMin), NoExp)
Engineer ==
    Item(IntStr(2), TXT.DataEngineer, <<>>, TXT.Berlin, TXT.UrlRel, <<>>, <<>>,
         Iso(JobsEpoch - 60), NoExp)
FreshAnalyst ==
    Item(IntStr(1), TXT.DataAnalyst, <<>>, TXT.RemoteIndia, TXT.UrlA, <<>>, <<>>,
         Iso(JobsEpoch - DayMin), Exp(<<2, 3>>, FALSE, FALSE, FALSE))
NoIdBi ==
    Item(<<>>, TXT.BIDeveloper, <<>>, <<>>, TXT.UrlB, <<>>, <<>>, Undated,
         Exp(<<>>, FALSE, TRUE, FALSE))
Future ==
    Item(<<>>, TXT.analyst_, <<>>, <<>>, TXT.UrlB, <<>>, <<>>,
         Iso(JobsEpoch + DayMin), NoExp)
Unparseable ==
    Item(<<>>, TXT.analytics_lead, <<>>, <<>>, TXT.UrlC, <<>>, <<>>, BadDate, NoExp)
Hybrid ==
    Item(<<>>, TXT.big_data_engineer, <<>>, TXT.Pune, TXT.UrlB, <<>>, <<>>,
         Ago(3, "day"), Exp(<<5, 8>>, TRUE, FALSE, FALSE))
Chef ==
    Item(IntStr(9), TXT.chef, <<>>, TXT.Berlin, TXT.UrlC, <<>>, <<>>, Iso(JobsEpoch), NoExp)
Edge ==
    Item(<<>>, TXT.data_scientist, <<>>, TXT.Berlin, TXT.UrlC, <<>>, SRC.indeed,
         Iso(JobsEpoch - DEFAULT_DAYS * DayMin), Exp(<<>>, FALSE, FALSE, TRUE))

\* records without an id, and records whose urls differ in punctuation only
NoIdAnalyst ==
    Item(<<>>, TXT.DataAnalyst, <<>>, <<>>, TXT.UrlC, <<>>, <<>>, Undated, NoExp)
DashAnalyst ==
    Item(<<>>, TXT.DataAnalyst, <<>>, <<>>, TXT.UrlDash, <<>>, <<>>, Undated, NoExp)
DotAnalyst ==
    Item(<<>>, TXT.data_scientist, <<>>, <<>>, TXT.UrlDot, <<>>, <<>>, Undated, NoExp)

\* a long answer: n listings with distinct urls, mixed ranks and dates
BatchTitle(i) ==
    CASE i % 3 = 0 -> TXT.DataAnalyst
      [] i % 3 = 1 -> TXT.data_scientist
      [] OTHER -> TXT.analyst
BatchItem(i) ==
    Item(IntStr(i), BatchTitle(i), <<>>, <<>>, TXT.UrlN \o IntStr(i), <<>>, <<>>,
         Iso(JobsEpoch - (i % 4) * DayMin), NoExp)
Batch(n) == [i \in 1..n |-> BatchItem(i)]

\* the non-empty lists each source may answer with
Lists(kind) ==
    CASE kind = "remoteok" -> {<<Meta, StaleScientist, Engineer>>, Batch(MIN_LIMIT + 1),
                             <<NoIdBi, NoIdAnalyst>>}
      [] kind = "remotive" -> {<<FreshAnalyst, NoIdBi>>}
      [] kind = "rss" -> {<<Future, Unparseable>>}
      [] kind = "workingnomads" -> {<<Hybrid, Chef>>}
      [] kind = "wwr" -> {<<FreshAnalyst>>}
      [] kind = "multi" -> {<<Hybrid>>}
      [] kind = "indeed" -> {<<Edge>>}
      [] kind = "linkedin" -> {<<Edge, Future>>, <<DashAnalyst, DotAnalyst>>}
      [] kind = "cached" -> {<<FreshAnalyst, StaleScientist>>}

Failures == { Failed(k) : k \in FailKinds }
Replies(kind) ==
    Failures \cup {EmptyAnswer, Answer(FALSE, <<>>)}
             \cup { Answer(TRUE, l) : l \in Lists(kind) }

JobsRequests ==
    { JobsRequest("GET", "h", NoParam, NoParam),
      JobsRequest("GET", "h", TextParam, IntParam(5)),
      JobsRequest("GET", "", IntParam(45), IntParam(MAX_LIMIT + 1)),
      JobsRequest("POST", "h", IntParam(-2), IntParam(-3)),
      JobsRequest("GET", "h", IntParam(3), IntParam(0)),
      JobsRequest("OPTIONS", "h", NoParam, NoParam) }

JobsEnvs ==
    { [KV |-> TRUE, ENABLE_HEADLESS |-> "1"],
      [KV |-> FALSE, ENABLE_HEADLESS |-> ""] }

\* ---- the handler (l. 336-730) ----
NoResponse == [status |-> 0]
Crash == [status |-> 500]            \* an exception escapes the handler
Ended == [status |-> 200, ended |-> TRUE]      \* res.status(200).end()

\* the UTF-16 code units of the characters of the source names, in order
CodeUnits == DigitChars \o UpperCase \o <<"_">> \o LowerCaseLetters
CodeOf(c) == IF \E k \in DOMAIN CodeUnits : CodeUnits[k] = c
             THEN CHOOSE k \in DOMAIN CodeUnits : CodeUnits[k] = c
             ELSE 0
\* a < b for two strings, as Array.prototype.sort compares them by default
StringBefore(a, b) ==
    \/ Len(a) < Len(b) /\ SubSeq(b, 1, Len(a)) = a
    \/ \E k \in 1..Min(Len(a), Len(b)) :
           /\ SubSeq(a, 1, k - 1) = SubSeq(b, 1, k - 1)
           /\ CodeOf(a[k]) < CodeOf(b[k])
\* Array.from(set).sort()
RECURSIVE SortStrings(_)
SortStrings(set) ==
    IF set = {} THEN <<>>
    ELSE LET first == CHOOSE a \in set : \A b \in set \ {a} : StringBefore(a, b)
         IN  <<first>> \o SortStrings(set \ {first})
\* (mutant of sourcesOf: the sources in the order of their first listing)
RECURSIVE sourcesOfUnsorted(_)
sourcesOfUnsorted(jobs) ==
    IF jobs = <<>> THEN <<>>
    ELSE LET front == sourcesOfUnsorted(SubSeq(jobs, 1, Len(jobs) - 1))
             s == jobs[Len(jobs)].source
         IN  IF \E k \in DOMAIN front : front[k] = s THEN front ELSE Append(front, s)

\* new Set(jobs.map(j => j.source))
SourceSet(jobs) == { jobs[i].source : i \in DOMAIN jobs }
\* l. 709: the sources of the listings returned, sorted
sourcesOf(jobs) == SortStrings(SourceSet(jobs))
Snapshot(req, jobs) ==
    [count |-> Len(jobs), limit |-> limitOf(req), status |-> 200, jobs |-> jobs,
     days |-> daysOf(req), ok |-> TRUE,
     sources |-> sourcesOf(jobs),
     sourceCounts |-> [s \in SourceSet(jobs) |->
                          Cardinality({ i \in DOMAIN jobs : jobs[i].source = s })]]

NoRnds(items) == [i \in DOMAIN items |-> <<>>]

\* l. 674-707: rank filter, freshness filter, de-duplication, sort, slice
Survivors(jobs, req, nowT, t) ==
    Dedupe(FilterFresh(FilterRank(jobs), nowT, daysOf(req) * DayMin, t), {})
Shortlist(jobs, req, nowT, t) ==
    slice(Sort(Survivors(jobs, req, nowT, t), t), limitOf(req))

HEADLESS == {"wwr", "multi", "indeed", "linkedin"}   \* awaited inside try/catch

\* where the handler suspends next after the loop of `kind`
NextAwait(kind, req, e) ==
    CASE kind = "kv" -> "remoteok"
      [] kind = "remoteok" -> "remotive"
      [] kind = "remotive" -> "rss"
      [] kind = "rss" -> IF baseUrlOf(req) # "" THEN "workingnomads"
                         ELSE "done"
      [] kind = "workingnomads" ->
            IF e.ENABLE_HEADLESS = "1" /\ baseUrlOf(req) # "" THEN "wwr" ELSE "done"
      [] kind = "wwr" -> "multi"
      [] kind = "multi" -> "indeed"
      [] kind = "indeed" -> "linkedin"
      [] kind = "linkedin" -> "done"

Pending == [items |-> <<>>, settled |-> FALSE]
Settled(items) == [items |-> items, settled |-> TRUE]
NoFeeds == [f \in DOMAIN rssFeeds |-> Settled(<<>>)]
Started == [f \in DOMAIN rssFeeds |-> IF f \in LiveFeeds THEN Pending ELSE Settled(<<>>)]

\* the handler runs on from the loop of `kind`, with `jobs` accumulated,
\* to its next await or, through the loop of the cached jobs (l. 648-672)
\* and the tail, to its response
Continue(kind, jobs, cached, req, e, nowT, t) ==
    LET next == NextAwait(kind, req, e)
        all == jobs \o PushAll("cached", <<>>, cached, t, NoRnds(cached))
    IN  IF next = "done"
        THEN [jobs |-> all, pc |-> next, rss |-> NoFeeds,
              resp |-> Snapshot(req, Shortlist(all, req, nowT, t))]
        ELSE [jobs |-> jobs, pc |-> next,
              rss |-> IF next = "rss" THEN Started ELSE NoFeeds,
              resp |-> NoResponse]

\* the step that resumes from `await fetchJson(...)` of `kind` with `reply`
AfterFetch(kind, reply, rnds, jobs, cached, req, e, nowT, t) ==
    LET r == fetchJson(reply)
        list == IF r.threw THEN <<>> ELSE ListOf(kind, r.data)
        items == IF kind = "remotive" THEN SubSeq(list, 1, Min(Len(list), 80)) ELSE list
    IN  IF r.threw /\ kind \notin HEADLESS
        THEN [jobs |-> jobs, pc |-> "done", rss |-> NoFeeds, resp |-> Crash]
        ELSE Continue(kind, jobs \o PushAll(kind, <<>>, items, t, rnds),
                      cached, req, e, nowT, t)

\* l. 460-495: the settled feeds are read in list order
RECURSIVE RssPush(_, _, _)
RssPush(rss, f, t) ==
    IF f > Len(rssFeeds) THEN <<>>
    ELSE PushAll("rss", rssFeeds[f].source, rss[f].items, t, NoRnds(rss[f].items))
         \o RssPush(rss, f + 1, t)
\* history: the items a loop reads, each with the loop that reads it
Read(kind, src, items, rnds) ==
    [i \in DOMAIN items |-> [src |-> src, rnd |-> rnds[i], kind |-> kind, it |-> items[i]]]
RECURSIVE RssRead(_, _)
RssRead(rss, f) ==
    IF f > Len(rssFeeds) THEN <<>>
    ELSE Read("rss", rssFeeds[f].source, rss[f].items, NoRnds(rss[f].items))
         \o RssRead(rss, f + 1)

\* kv.get('jobs:scraped:all') inside try/catch (l. 367-375)
kvGet(reply) == IF reply.status = "ok" THEN reply.items ELSE <<>>

\* the time the handler has waited: in the awaits that have settled, and in
\* the await it is suspended at
Waited(before, current) == [before |-> before, current |-> current]
NoWait == Waited(0, 0)
\* l. 138, 180, 530-531, 559-560, 589-590, 619-620: the timeout of the
\* fetch of a source, in ms
TimeoutOf(kind) ==
    CASE kind = "rss" -> RSS_TIMEOUT_MS
      [] kind = "wwr" -> 22000
      [] kind = "multi" -> 35000
      [] kind = "indeed" -> 20000
      [] kind = "linkedin" -> 25000
      [] OTHER -> TIMEOUT_MS
\* a fetch that is aborted by its timeout has taken that long; any other
\* answer is taken to arrive at once
Took(kind, reply) == IF reply.status = "timeout" THEN TimeoutOf(kind) ELSE 0
\* the time waited is counted up to just past the longest timeout
WaitCap == TimeoutOf("multi") + 1
\* the await the handler is suspended at settles after d ms
WaitOver(w, d) == Waited(Min(w.before + Max(w.current, d), WaitCap), 0)

\* ---- state machine ----
JobsIdle ==
    /\ jpc = "idle"
    /\ jreq = JobsRequest("GET", "", NoParam, NoParam)
    /\ jnow = 0
    /\ jclock = JobsEpoch
    /\ jjobs = <<>>
    /\ jcached = <<>>
    /\ jrss = NoFeeds
    /\ jresp = NoResponse
    /\ jfetched = <<>>
    /\ jdelivered = 0
    /\ jfailed = FALSE
    /\ jwaited = NoWait

JobsInit ==
    /\ jenv \in JobsEnvs
    /\ JobsIdle
    /\ OmdbParked
    /\ PortalsParked
    /\ RefreshParked

Delivers(reply) == reply.items # <<>>
MayAnswer(reply) == Delivers(reply) => jdelivered < MaxDelivering
Count(reply) == IF Delivers(reply) THEN jdelivered + 1 ELSE jdelivered

\* l. 336-375: the request arrives; the handler runs to its first await
JobsStart(req) ==
    /\ jpc = "idle"
    /\ jreq' = req
    /\ jnow' = jclock
    /\ IF req.method = "OPTIONS"
       THEN jpc' = "done" /\ jresp' = Ended
       ELSE jpc' = (IF jenv.KV THEN "kv" ELSE "remoteok") /\ jresp' = NoResponse
    /\ UNCHANGED <<jenv, jclock, jjobs, jcached, jrss, jfetched, jdelivered, jfailed,
                   jwaited, omdbVars, portalVars, refreshVars>>

\* kv.get settles (l. 370-374)
KvStep(reply) ==
    /\ jcached' = kvGet(reply)
    /\ jpc' = NextAwait("kv", jreq, jenv)
    /\ UNCHANGED <<jenv, jreq, jnow, jclock, jjobs, jrss, jresp>>
JobsKv(reply) ==
    /\ jpc = "kv"
    /\ MayAnswer(reply)
    /\ KvStep(reply)
    /\ jdelivered' = Count(reply)
    /\ jfailed' = (jfailed \/ reply \in Failures)
    /\ UNCHANGED <<jfetched, jwaited, omdbVars, portalVars, refreshVars>>

\* a fetchJson settles and the handler runs to its next await or response
FetchStep(kind, reply, rnds) ==
    /\ \E after \in {AfterFetch(kind, reply, rnds, jjobs, jcached, jreq, jenv, jnow, jclock)} :
           /\ jpc' = after.pc
           /\ jjobs' = after.jobs
           /\ jrss' = after.rss
           /\ jresp' = after.resp
    /\ UNCHANGED <<jenv, jreq, jnow, jclock, jcached>>
JobsFetch(kind, reply, rnds) ==
    /\ jpc = kind
    /\ MayAnswer(reply)
    /\ FetchStep(kind, reply, rnds)
    /\ jfetched' = jfetched \o Read(kind, <<>>, ListOf(kind, fetchJson(reply).data), rnds)
            \o (IF jpc' = "done" THEN Read("cached", <<>>, jcached, NoRnds(jcached))
                ELSE <<>>)
    /\ jdelivered' = Count(reply)
    /\ jfailed' = (jfailed \/ reply \in Failures)
    /\ jwaited' = WaitOver(jwaited, Took(kind, reply))
    /\ UNCHANGED <<omdbVars, portalVars, refreshVars>>

\* the fetch of feed f settles (l. 452-459)
RssSettleStep(f, reply) ==
    /\ jrss' = [jrss EXCEPT ![f] = Settled(fetchRssDirect(reply))]
    /\ UNCHANGED <<jenv, jpc, jreq, jnow, jclock, jjobs, jcached, jresp>>
JobsRssSettle(f, reply) ==
    /\ jpc = "rss"
    /\ f \in LiveFeeds
    /\ ~jrss[f].settled
    /\ MayAnswer(reply)
    /\ RssSettleStep(f, reply)
    /\ jdelivered' = Count(reply)
    /\ jfailed' = (jfailed \/ reply \in Failures)
    /\ jwaited' = Waited(jwaited.before, Max(jwaited.current, Took("rss", reply)))
    /\ UNCHANGED <<jfetched, omdbVars, portalVars, refreshVars>>

\* every feed has settled: the handler reads the results in list order
\* (l. 460-495) and runs to its next await or response
JobsRssDone ==
    /\ jpc = "rss"
    /\ \A f \in DOMAIN jrss : jrss[f].settled
    /\ \E after \in {Continue("rss", jjobs \o RssPush(jrss, 1, jclock), jcached,
                             jreq, jenv, jnow, jclock)} :
           /\ jpc' = after.pc
           /\ jjobs' = after.jobs
           /\ jrss' = after.rss
           /\ jresp' = after.resp
    /\ jfetched' = jfetched \o RssRead(jrss, 1)
            \o (IF jpc' = "done" THEN Read("cached", <<>>, jcached, NoRnds(jcached))
                ELSE <<>>)
    /\ jwaited' = WaitOver(jwaited, 0)
    /\ UNCHANGED <<jenv, jreq, jnow, jclock, jcached, jdelivered, jfailed, omdbVars,
                   portalVars, refreshVars>>

FETCHED == {"remoteok", "remotive", "workingnomads", "wwr", "multi", "indeed", "linkedin"}
\* Math.random() is called in the Remotive loop only
RndsFor(kind, reply) ==
    IF kind = "remotive" THEN [DOMAIN reply.items -> RandomDraws]
    ELSE {NoRnds(reply.items)}

JobsNext ==
    \/ \E req \in JobsRequests : JobsStart(req)
    \/ \E reply \in Replies("cached") : JobsKv(reply)
    \/ \E kind \in FETCHED : \E reply \in Replies(kind) : \E rnds \in RndsFor(kind, reply) :
           JobsFetch(kind, reply, rnds)
    \/ \E f \in LiveFeeds : \E reply \in Replies("rss") : JobsRssSettle(f, reply)
    \/ JobsRssDone

SpecJobs == JobsInit /\ [][JobsNext]_vars

\* ======================================================================
\*                 Properties of the jobs snapshot
\* ======================================================================

\* the handler has answered a request with the snapshot
Served == jpc = "done" /\ jresp.status = 200 /\ jreq.method # "OPTIONS"

\* the jobs of `jobs` that pass the rank and freshness filters (l. 674-685)
Filtered == FilterFresh(FilterRank(jjobs), jnow, daysOf(jreq) * DayMin, jclock)

\* C4: no two listings of the jobs array of a response have the same url,
\* whatever the sources returned.
C4_NoDuplicateUrl ==
    Served =>
        \A i, k \in DOMAIN jresp.jobs :
            i # k => jresp.jobs[i].url # jresp.jobs[k].url

\* C4 (witness): a snapshot was served for which two listings with the same
\* url, from different sources, had both passed the filters.
C4_Witness ==
    /\ Served
    /\ jresp.jobs # <<>>
    /\ \E i, k \in DOMAIN Filtered :
          /\ i < k
          /\ Filtered[i].url = Filtered[k].url
          /\ Filtered[i].source # Filtered[k].source

\* C5 (as stated): the parsed date of every listing of a response lies in
\* [now - days*24h, now]; a listing dated in the future never appears.
C5_AsStated ==
    Served =>
        \A i \in DOMAIN jresp.jobs :
            LET dt == parseDateLike(jresp.jobs[i].date, jclock)
            IN  /\ dt # <<>>
                /\ jnow - jresp.days * DayMin <= dt[1]
                /\ dt[1] <= jnow

\* the value of the limit parameter when it is an integer
RequestedLimit == jreq.query.limit

Cand(r) == Candidate(r.kind, r.src, r.it, jclock, r.rnd)

\* C7: no listing of a response has a negative composite score (role score
\* + location score + experience score), and no listing read from any
\* source with a negative composite score is in the response.
C7_NoNegativeScore ==
    Served =>
        /\ \A i \in DOMAIN jresp.jobs : jresp.jobs[i]._rank >= 0
        /\ \A n \in DOMAIN jfetched :
              HasTitleAndUrl(jfetched[n].it) /\ Cand(jfetched[n])._rank < 0
                  => \A i \in DOMAIN jresp.jobs : jresp.jobs[i] # Cand(jfetched[n])

\* C7 (witness): a snapshot with listings was served after a fresh listing
\* with a negative composite score had been read.
C7_Witness ==
    /\ Served
    /\ jresp.jobs # <<>>
    /\ \E n \in DOMAIN jfetched :
          /\ HasTitleAndUrl(jfetched[n].it)
          /\ Cand(jfetched[n])._rank < 0
          /\ IsFresh(Cand(jfetched[n]), jnow, jresp.days * DayMin, jclock)

\* a listing read passes the filters of its loop and of the tail
Passes(r) ==
    /\ Pushed(r.kind, r.it)
    /\ Cand(r)._rank >= 0
    /\ IsFresh(Cand(r), jnow, jresp.days * DayMin, jclock)

SameListings(a, b) ==
    /\ Len(a) = Len(b)
    /\ \A i \in DOMAIN a :
          /\ [a[i] EXCEPT !.id = <<>>] = [b[i] EXCEPT !.id = <<>>]
          /\ a[i].id # b[i].id => a[i].source = SRC.remotive

\* the first n fetched items, each as <<the listing it becomes>> if it passes
\* the keyword, role, rank and freshness filters, and as <<>> if not
RECURSIVE PassingOf(_)
PassingOf(n) ==
    IF n = 0 THEN <<>>
    ELSE Append(PassingOf(n - 1),
                IF Passes(jfetched[n]) THEN <<Cand(jfetched[n])>> ELSE <<>>)

\* of the listings fetched with one url that pass the keyword, role, rank and
\* freshness filters, the response keeps the first in processing order
FirstPassingWins ==
    Served =>
        \E passing \in {PassingOf(Len(jfetched))} :
            \A i \in DOMAIN jresp.jobs :
                \E n \in DOMAIN passing :
                    /\ passing[n] = <<jresp.jobs[i]>>
                    /\ \A m \in 1..(n - 1) :
                          passing[m] # <<>> => passing[m][1].url # jresp.jobs[i].url

\* where the handler awaits Remotive (its loop is the one place that calls
\* Math.random()): whatever the draws, the answer leads to the same listings
\* and the same response, but for the ids generated for Remotive listings
RandomFree ==
    jpc = "remotive" =>
        \A reply \in Replies("remotive") :
            \A rnds, other \in RndsFor("remotive", reply) :
                LET one == AfterFetch("remotive", reply, rnds, jjobs, jcached, jreq,
                                      jenv, jnow, jclock)
                    alt == AfterFetch("remotive", reply, other, jjobs, jcached, jreq,
                                      jenv, jnow, jclock)
                IN  /\ one.pc = alt.pc
                    /\ SameListings(one.jobs, alt.jobs)
                    /\ one.pc = "done" => SameListings(one.resp.jobs, alt.resp.jobs)

Survived == Dedupe(Filtered, {})
\* the time the date of a listing parses to
ParsedDate(j) == parseDateLike(j.date, jclock)[1]
\* listing a goes before listing b: higher score, or same score and later date
GoesBefore(a, b) ==
    \/ a._rank > b._rank
    \/ a._rank = b._rank /\ ParsedDate(a) > ParsedDate(b)

\* C9: the jobs array is ordered by descending composite score, ties broken
\* by descending date; of the n listings left after filtering and
\* de-duplication it holds exactly min(n, limit), none of which goes after
\* a listing left out.
C9_SortedTop ==
    Served =>
        LET out == jresp.jobs
            n == Len(Survived)
        IN  /\ \A i, k \in DOMAIN out : i < k => ~GoesBefore(out[k], out[i])
            /\ Len(out) = IF n <= jresp.limit THEN n ELSE jresp.limit
            /\ \A i \in DOMAIN out : \E s \in DOMAIN Survived : Survived[s] = out[i]
            /\ \A i, k \in DOMAIN out : i # k => out[i] # out[k]
            /\ \A s \in DOMAIN Survived :
                  (\A i \in DOMAIN out : out[i] # Survived[s])
                      => \A i \in DOMAIN out : ~GoesBefore(Survived[s], out[i])

\* C9 (witness): a snapshot was served that holds `limit` listings out of
\* more, not in the order they were fetched in, among them two of equal
\* score and different dates.
C9_Witness ==
    /\ Served
    /\ Len(Survived) > jresp.limit
    /\ Len(jresp.jobs) = jresp.limit
    /\ jresp.jobs # SubSeq(Survived, 1, jresp.limit)
    /\ \E i, k \in DOMAIN jresp.jobs :
          /\ i < k
          /\ jresp.jobs[i]._rank = jresp.jobs[k]._rank
          /\ ParsedDate(jresp.jobs[i]) > ParsedDate(jresp.jobs[k])

\* C10: a step in which a source fails -- network error, timeout, non-2xx
\* status, unparseable body, KV read error -- leaves the handler where the
\* empty answer of that source would have left it, and every response to
\* a request other than OPTIONS has status 200 and ok = true.
C10_FailuresIsolated ==
    [][ /\ \A f \in Failures :
              /\ JobsKv(f) => KvStep(EmptyAnswer)
              /\ \A kind \in FETCHED : \A rnds \in RndsFor(kind, f) :
                    JobsFetch(kind, f, rnds) => FetchStep(kind, EmptyAnswer, rnds)
              /\ \A feed \in LiveFeeds :
                    JobsRssSettle(feed, f) => RssSettleStep(feed, EmptyAnswer)
        /\ jpc' = "done" /\ jreq'.method # "OPTIONS"
              => jresp'.status = 200 /\ jresp'.ok
      ]_vars

\* C10 (witness): a snapshot with listings was served with status 200 and
\* ok = true after a source had failed.
C10_Witness ==
    /\ Served
    /\ jfailed
    /\ jresp.ok
    /\ jresp.count > 0

(***************************************************************************)
(* headless-scrape-all-portals: src/unnamed/part_003 (worker pool, one     *)
(* page per task) and src/api/headless-scrape-all-portals.js (one page for *)
(* all scrapers).  One time unit is a second.                              *)
(***************************************************************************)
CACHE_TTL == 3600
concurrency == 4
DaySec == 24 * 60 * 60
DEFAULT_MAX_DAYS == 3

\* enabled() and hasKv() for an environment e
enabled(e) == e.ENABLE_HEADLESS = "1"
hasKv(e) == e.KV

\* a date string 'today' / 'just now', and 'yesterday'
TodayDate == [k |-> "today"]
YesterdayDate == [k |-> "yesterday"]

\* parseDate(dateStr) when Date.now() = t: <<time>>, or <<>> for null
parseDate(d, t) ==
    CASE d.k = "none" -> <<>>
      [] d.k = "iso" -> <<d.t>>
      [] d.k = "today" -> <<t>>
      [] d.k = "yesterday" -> <<t - DaySec>>
      [] d.k = "ago" -> IF d.unit = "day" THEN <<t - d.n * DaySec>> ELSE <<>>
      [] OTHER -> <<>>

\* (mutant of filterByDate: a listing without a parsed date is dropped)
filterByDateStrict(jobs, maxDays, t) ==
    IF maxDays = 0 THEN jobs
    ELSE SelectSeq(jobs, LAMBDA job :
             LET date == parseDate(job.date, t)
             IN  date # <<>> /\ date[1] >= t - maxDays * DaySec)

\* filterByDate(jobs, maxDays) when Date.now() = t
filterByDate(jobs, maxDays, t) ==
    IF maxDays = 0 THEN jobs
    ELSE SelectSeq(jobs, LAMBDA job :
             LET date == parseDate(job.date, t)
             IN  date = <<>> \/ date[1] >= t - maxDays * DaySec)

\* the test of sortByLocation: /remote|work from home|wfh|anywhere|distributed/
IsRemote(job) == TestAny(toLowerCase(job.location), RemoteWords)

\* sortByLocation(jobs): a stable sort, remote listings first
sortByLocation(jobs) ==
    SelectSeq(jobs, IsRemote) \o SelectSeq(jobs, LAMBDA job : ~IsRemote(job))

\* dedupeByUrl(jobs): the first listing of each trimmed, non-empty url
RECURSIVE dedupeByUrl(_, _)
dedupeByUrl(jobs, seen) ==
    IF jobs = <<>> THEN <<>>
    ELSE LET u == trim(Head(jobs).url)
         IN  IF u = <<>> \/ u \in seen THEN dedupeByUrl(Tail(jobs), seen)
             ELSE <<Head(jobs)>> \o dedupeByUrl(Tail(jobs), seen \cup {u})

\* ---- requests, environment, scraped data ----
PoolTasks == 5          \* headless tasks where the pool is studied (the code lists 18)
HandlerTasks == 1       \* headless tasks where the handler and its cache are studied
MaxRequests == 2        \* requests served one after the other
MaxPortalTicks == 2     \* clock advances

PortalsEpoch == 1000 * DaySec

\* the names of the first headless tasks (l. 1017-1034)
PORTALS == <<"linkedin", "naukri", "indeed", "monster", "foundit", "glassdoor">>
\* the headless tasks of an environment (`tasks`: how many the model keeps)
Tasks(e) == 1..e.tasks

\* what task i finds when its scraper succeeds: listings that share urls
\* across tasks, dated inside and outside the window, not dated, with a
\* date nothing parses, or without a url
PortalJob(url, date, location) == [date |-> date, url |-> url, location |-> location]
TaskJobs(i) ==
    CASE i % 5 = 1 -> <<PortalJob(TXT.UrlA, Ago(1, "day"), STR.India)>>
      [] i % 5 = 2 -> <<PortalJob(TXT.UrlA, TodayDate, STR.Remote),
                        PortalJob(TXT.UrlB, BadDate, STR.India)>>
      [] i % 5 = 3 -> <<PortalJob(TXT.UrlC, Iso(PortalsEpoch - 10 * DaySec), STR.Remote)>>
      [] i % 5 = 4 -> <<PortalJob(SP, Undated, STR.Remote)>>
      [] OTHER -> <<PortalJob(TXT.UrlB, YesterdayDate, STR.Remote)>>

\* a result of a scraper, and the result a worker stores for a task that threw
PortalResult(source, jobs, failed) == [source |-> source, jobs |-> jobs, failed |-> failed]
Unknown(i) == PortalResult("unknown", <<>>, TRUE)
\* the result of the .catch() of scraper i in the one-page build (l. 733-749)
Caught(i) == PortalResult(PORTALS[i], <<>>, TRUE)
Scraped(i) == PortalResult(PORTALS[i], TaskJobs(i), FALSE)

\* the non-headless platforms (l. 1056-1068) answer together: nothing, or
\* one platform with a listing
NonHeadlessAnswers ==
    { <<>>,
      <<PortalResult("remoteok", <<PortalJob(TXT.UrlC, TodayDate, STR.India)>>, FALSE)>> }

\* req.query: force as sent; q, location as sent ("" absent); days parsed
PortalRequest(m, force, q, days, location) ==
    [q |-> q, method |-> m, location |-> location, days |-> days, force |-> force]
PortalRequests ==
    { PortalRequest("GET", "", "", NoParam, ""),
      PortalRequest("GET", "1", "sql", IntParam(1), "pune"),
      PortalRequest("GET", "true", "", TextParam, ""),
      PortalRequest("GET", "yes", "sql", IntParam(30), ""),
      PortalRequest("OPTIONS", "", "", NoParam, "") }

PoolRequests == { PortalRequest("GET", "1", "sql", IntParam(1), "pune") }

\* a flag that is set by force=1 only
forceOfOne(req) == req.force = "1"
\* l. 1145: force === '1' || force === 'true'
forceOf(req) == req.force = "1" \/ req.force = "true"
\* l. 1142, 991: q, defaulted
queryOf(req) == IF req.q = "" THEN "data analyst" ELSE req.q
\* l. 1144, 993
locOf(req) == IF req.location = "" THEN "remote" ELSE req.location
\* l. 1143, 992: parseInt(days, 10) || 3
maxDaysOf(req) == parseIntOr(req.days, DEFAULT_MAX_DAYS)

\* process.env, and which of the two sources of the handler is deployed
PortalEnv(kv, headless, build, tasks) ==
    [KV |-> kv, ENABLE_HEADLESS |-> headless, tasks |-> tasks, build |-> build]
PortalEnvs ==
    { PortalEnv(TRUE, "1", "pool", HandlerTasks),
      PortalEnv(TRUE, "1", "onepage", HandlerTasks),
      PortalEnv(FALSE, "1", "pool", HandlerTasks),
      PortalEnv(TRUE, "", "pool", HandlerTasks) }
PoolEnvs ==
    { PortalEnv(FALSE, "1", "pool", PoolTasks),
      PortalEnv(FALSE, "1", "onepage", PoolTasks) }

\* ---- the cache ----
\* the object written with kv.setex (l. 1099-1107)
CacheEntry(jobs, sources, scrapedAt, query, days, location) ==
    [query |-> query, location |-> location, jobs |-> jobs, days |-> days,
     sources |-> sources, scrapedAt |-> scrapedAt]
\* the key: absent, or a value with the time kv.setex stored it at
NoKey == [held |-> FALSE]
Key(value, storedAt) == [held |-> TRUE, value |-> value, storedAt |-> storedAt]
\* what kv.get returns at time t: <<>> for null (absent, or expired after
\* the CACHE_TTL seconds given to kv.setex)
kvRead(kv, t) ==
    IF kv.held /\ t < kv.storedAt + CACHE_TTL THEN <<kv.value>> ELSE <<>>
\* a test that trusts the expiry of the key
CacheHitUnexpired(cached, t) == cached # <<>> /\ cached[1].jobs # <<>>
\* l. 1155-1158: the test of a cache hit
CacheHit(cached, t) ==
    /\ cached # <<>>
    /\ cached[1].jobs # <<>>
    /\ t - cached[1].scrapedAt < CACHE_TTL

\* ---- responses ----
PortalResponse(kind, ok, jobs, sources, scrapedAt, query, days, location) ==
    [query |-> query, status |-> 200, location |-> location, kind |-> kind, jobs |-> jobs,
     days |-> days, ok |-> ok, sources |-> sources, scrapedAt |-> scrapedAt]
PortalNone == [status |-> 0, kind |-> "none"]
PortalEnded == [status |-> 200, kind |-> "ended"]                \* l. 1129
PortalDisabled ==                                                \* l. 1131-1138
    PortalResponse("disabled", FALSE, <<>>, <<>>, 0, "", 0, "")
ScraperFailed ==                                                 \* l. 1070
    PortalResponse("failed", FALSE, <<>>, <<>>, 0, "", 0, "")
\* (mutant of CachedResponse: the query, days and location of the request)
CachedResponseOfRequest(c) ==
    PortalResponse("cached", TRUE, c.jobs, c.sources, c.scrapedAt, queryOf(preq),
                   maxDaysOf(preq), locOf(preq))
CachedResponse(c) ==                                             \* l. 1159-1169
    PortalResponse("cached", TRUE, c.jobs, c.sources, c.scrapedAt, c.query, c.days,
                   c.location)

\* ---- aggregation (l. 1077-1093) ----
RECURSIVE Aggregate(_)
Aggregate(results) ==
    IF results = <<>> THEN <<>>
    ELSE [i \in DOMAIN Head(results).jobs |->
              [source |-> Head(results).source, date |-> Head(results).jobs[i].date,
               url |-> Head(results).jobs[i].url,
               location |-> Head(results).jobs[i].location]]
         \o Aggregate(Tail(results))
\* allJobs: de-duplicated (worker-pool build only), filtered, sorted
AllJobs(results, build, maxDays, t) ==
    LET all == Aggregate(results)
        deduped == IF build = "pool" THEN dedupeByUrl(all, {}) ELSE all
    IN  sortByLocation(filterByDate(deduped, maxDays, t))
SourcesOf(results) == [i \in DOMAIN results |-> results[i].source]

\* ---- the handler and scrapeAllPortals as a state machine ----
Workers == 1..concurrency
Waiting == [st |-> "waiting", page |-> 0, res |-> <<>>]
NoTasks(e) == [i \in Tasks(e) |-> Waiting]
NoWorkers == [w \in Workers |-> 0]
NoResults(e) == [i \in Tasks(e) |-> <<>>]
NoPages(e) == [p \in Tasks(e) |-> "none"]

PortalsIdle(e) ==
    /\ ppc = "idle"
    /\ preq = PortalRequest("GET", "", "", NoParam, "")
    /\ pbrowser = "none"
    /\ pcursor = 0
    /\ pworker = NoWorkers
    /\ ptask = NoTasks(e)
    /\ ppages = NoPages(e)
    /\ presults = NoResults(e)
    /\ pout = <<>>
    /\ pjobs = <<>>
    /\ presp = PortalNone
    /\ plog = <<>>
    /\ pcalled = 0

PortalsStart(envs, before) ==
    /\ penv \in envs
    /\ pclock = PortalsEpoch
    /\ pticks = 0
    /\ pserved = before
    /\ pkv = NoKey
    /\ PortalsIdle(penv)
    /\ OmdbParked
    /\ JobsParked
    /\ RefreshParked
PortalsInit == PortalsStart(PortalEnvs, 0)
\* one request is served
PoolInit == PortalsStart(PoolEnvs, MaxRequests - 1)

envVars == <<omdbVars, jobsVars, refreshVars, penv>>

\* the handler up to its first await (l. 1123-1179)
PortalStart(req) ==
    /\ ppc \in {"idle", "done"}
    /\ pserved < MaxRequests
    /\ pserved' = pserved + 1
    /\ preq' = req
    /\ pbrowser' = "none" /\ pcursor' = 0 /\ pworker' = NoWorkers
    /\ ptask' = NoTasks(penv) /\ ppages' = NoPages(penv) /\ presults' = NoResults(penv)
    /\ pout' = <<>> /\ pjobs' = <<>>
    /\ pcalled' = 0
    /\ IF req.method = "OPTIONS"
       THEN ppc' = "done" /\ presp' = PortalEnded /\ plog' = <<"respond">>
       ELSE IF ~enabled(penv)
       THEN ppc' = "done" /\ presp' = PortalDisabled /\ plog' = <<"respond">>
       ELSE IF ~forceOf(req) /\ hasKv(penv)
       THEN ppc' = "kvget" /\ presp' = PortalNone /\ plog' = <<"read">>
       ELSE ppc' = "launch" /\ presp' = PortalNone /\ plog' = <<"scrape">>
    /\ UNCHANGED <<envVars, pclock, pticks, pkv>>

\* kv.get settles (l. 1152-1175): a hit is answered, anything else scrapes
PortalKvGet(ok) ==
    /\ ppc = "kvget"
    /\ LET cached == IF ok THEN kvRead(pkv, pclock) ELSE <<>>
       IN  IF CacheHit(cached, pclock)
           THEN /\ ppc' = "done"
                /\ presp' = CachedResponse(cached[1])
                /\ plog' = Append(plog, "respond")
           ELSE /\ ppc' = "launch"
                /\ presp' = presp
                /\ plog' = Append(plog, "scrape")
    /\ UNCHANGED <<envVars, pclock, pticks, pserved, preq, pkv, pbrowser, pcursor,
                   pworker, ptask, ppages, presults, pout, pjobs, pcalled>>

\* worker w runs its loop (l. 1042-1048) from the loop test to the next
\* await: it takes the task at the cursor, or leaves the loop
TakeNext(worker, task, cursor, w) ==
    IF cursor < Len(task)
    THEN [worker |-> [worker EXCEPT ![w] = cursor + 1],
          task |-> [task EXCEPT ![cursor + 1].st = "newPage"],
          cursor |-> cursor + 1]
    ELSE [worker |-> [worker EXCEPT ![w] = 0], task |-> task, cursor |-> cursor]

\* the workers are created one after the other (l. 1041)
RECURSIVE StartWorkers(_, _, _, _)
StartWorkers(worker, task, cursor, w) ==
    IF w > concurrency THEN [worker |-> worker, task |-> task, cursor |-> cursor]
    ELSE LET n == TakeNext(worker, task, cursor, w)
         IN  StartWorkers(n.worker, n.task, n.cursor, w + 1)

\* headlessResults.forEach((r) => { if (r) results.push(r) })
RECURSIVE Collected(_, _)
Collected(results, i) ==
    IF i > Len(results) THEN <<>>
    ELSE results[i] \o Collected(results, i + 1)

\* puppeteer.launch settles (l. 998-1003)
PortalLaunch(ok) ==
    /\ ppc = "launch"
    /\ IF ~ok
       THEN \* catch, finally without a browser, and the response of the handler
            /\ ppc' = "done"
            /\ presp' = ScraperFailed
            /\ plog' = Append(plog, "respond")
            /\ UNCHANGED <<pbrowser, pcursor, pworker, ptask>>
       ELSE /\ pbrowser' = "open"
            /\ presp' = presp
            /\ plog' = plog
            /\ IF penv.build = "pool"
               THEN LET s == StartWorkers(NoWorkers, NoTasks(penv), 0, 1)
                    IN  /\ ppc' = "pool"
                        /\ pworker' = s.worker /\ ptask' = s.task /\ pcursor' = s.cursor
               ELSE /\ ppc' = "newPage"
                    /\ UNCHANGED <<pcursor, pworker, ptask>>
    /\ UNCHANGED <<envVars, pclock, pticks, pserved, preq, pkv, ppages, presults,
                   pout, pjobs, pcalled>>

\* (mutant of WorkerDone: the result is pushed, in the order of completion)
WorkerDonePush(w, i, r, pages) ==
    LET n == TakeNext(pworker, [ptask EXCEPT ![i] = [@ EXCEPT !.st = "done", !.res = <<>>]],
                      pcursor, w)
        free == CHOOSE k \in DOMAIN presults :
                    presults[k] = <<>> /\ \A j \in 1..(k - 1) : presults[j] # <<>>
        results == [presults EXCEPT ![free] = <<r>>]
    IN  /\ pworker' = n.worker /\ ptask' = n.task /\ pcursor' = n.cursor
        /\ presults' = results
        /\ ppages' = pages
        /\ IF \A v \in Workers : n.worker[v] = 0
           THEN ppc' = "nonheadless" /\ pout' = Collected(results, 1)
           ELSE ppc' = ppc /\ pout' = pout
        /\ UNCHANGED <<envVars, pclock, pticks, pserved, preq, pkv, pbrowser, pjobs, pcalled,
                       presp, plog>>

\* the task of worker w has finished with result r (l. 1045-1047): the
\* worker goes round its loop; after the last worker Promise.all resolves
\* and the results are collected (l. 1051-1052)
WorkerDone(w, i, r, pages) ==
    LET n == TakeNext(pworker, [ptask EXCEPT ![i] = [@ EXCEPT !.st = "done", !.res = <<>>]],
                      pcursor, w)
        results == [presults EXCEPT ![i] = <<r>>]
    IN  /\ pworker' = n.worker /\ ptask' = n.task /\ pcursor' = n.cursor
        /\ presults' = results
        /\ ppages' = pages
        /\ IF \A v \in Workers : n.worker[v] = 0
           THEN ppc' = "nonheadless" /\ pout' = Collected(results, 1)
           ELSE ppc' = ppc /\ pout' = pout
        /\ UNCHANGED <<envVars, pclock, pticks, pserved, preq, pkv, pbrowser, pjobs, pcalled,
                       presp, plog>>

Step(w, st) == ppc = "pool" /\ pworker[w] # 0 /\ ptask[pworker[w]].st = st

\* browser.newPage() of runWithPage settles (l. 1006); the page opened for
\* task i is page i
PoolNewPage(w, ok) ==
    /\ Step(w, "newPage")
    /\ LET i == pworker[w]
       IN  IF ok
           THEN /\ ppages' = [ppages EXCEPT ![i] = "open"]
                /\ ptask' = [ptask EXCEPT ![i] = [@ EXCEPT !.st = "setUA", !.page = i]]
                /\ UNCHANGED <<envVars, pclock, pticks, pserved, preq, pkv, pbrowser,
                               pcursor, pworker, presults, pout, pjobs, pcalled, presp, plog,
                               ppc>>
           ELSE WorkerDone(w, i, Unknown(i), ppages)

\* page.setUserAgent() of runWithPage settles (l. 1008): when it rejects,
\* the page is left as it is -- open, or gone with its target (a page
\* that is gone counts as closed)
PoolSetUserAgent(w, reply) ==
    /\ Step(w, "setUA")
    /\ LET i == pworker[w]
       IN  CASE reply = "ok" ->
                  /\ ptask' = [ptask EXCEPT ![i].st = "running"]
                  /\ UNCHANGED <<envVars, pclock, pticks, pserved, preq, pkv, pbrowser,
                                 pcursor, pworker, ppages, presults, pout, pjobs, pcalled, presp,
                                 plog, ppc>>
             [] reply = "throw" -> WorkerDone(w, i, Unknown(i), ppages)
             [] reply = "gone" ->
                  WorkerDone(w, i, Unknown(i), [ppages EXCEPT ![ptask[i].page] = "closed"])

\* fn(page) settles (l. 1010); the finally block awaits page.close()
PoolScrape(w, reply) ==
    /\ Step(w, "running")
    /\ LET i == pworker[w]
           r == IF reply = "ok" THEN Scraped(i) ELSE Unknown(i)
       IN  ptask' = [ptask EXCEPT ![i] = [@ EXCEPT !.st = "closing", !.res = <<r>>]]
    /\ UNCHANGED <<envVars, pclock, pticks, pserved, preq, pkv, pbrowser, pcursor,
                   pworker, ppages, presults, pout, pjobs, pcalled, presp, plog, ppc>>

\* page.close() settles (l. 1012), resolved or rejected; it rejects only
\* when the page is gone
PoolClose(w, ok) ==
    /\ Step(w, "closing")
    /\ LET i == pworker[w]
       IN  WorkerDone(w, i, ptask[i].res[1],
                      [ppages EXCEPT ![ptask[i].page] = "closed"])

\* ---- the one-page build (src/api/headless-scrape-all-portals.js) ----
\* browser.newPage() settles (l. 727); a rejection is caught at l. 758
OnePageNewPage(ok) ==
    /\ ppc = "newPage"
    /\ IF ok
       THEN ppc' = "setUA" /\ ppages' = [ppages EXCEPT ![1] = "open"] /\ pout' = pout
       ELSE ppc' = "failing" /\ ppages' = ppages /\ pout' = pout
    /\ UNCHANGED <<envVars, pclock, pticks, pserved, preq, pkv, pbrowser, pcursor,
                   pworker, ptask, presults, pjobs, pcalled, presp, plog>>

\* page.setUserAgent() settles (l. 729); then every scraper is called with
\* the one page (l. 732-750)
OnePageSetUserAgent(ok) ==
    /\ ppc = "setUA"
    /\ IF ok
       THEN /\ ppc' = "scrapers"
            /\ ptask' = [i \in Tasks(penv) |-> [st |-> "running", page |-> 1, res |-> <<>>]]
            /\ pout' = pout
       ELSE ppc' = "failing" /\ ptask' = ptask /\ pout' = pout
    /\ UNCHANGED <<envVars, pclock, pticks, pserved, preq, pkv, pbrowser, pcursor,
                   pworker, ppages, presults, pjobs, pcalled, presp, plog>>

\* scraper i settles; after the last one Promise.allSettled resolves and
\* the results are collected (l. 752-757)
OnePageScrape(i, ok) ==
    /\ ppc = "scrapers"
    /\ ptask[i].st = "running"
    /\ LET results == [presults EXCEPT ![i] = <<IF ok THEN Scraped(i) ELSE Caught(i)>>]
           task == [ptask EXCEPT ![i].st = "done"]
       IN  /\ presults' = results
           /\ ptask' = task
           /\ IF \A k \in Tasks(penv) : task[k].st = "done"
              THEN ppc' = "closing" /\ pout' = Collected(results, 1)
              ELSE ppc' = ppc /\ pout' = pout
    /\ UNCHANGED <<envVars, pclock, pticks, pserved, preq, pkv, pbrowser, pcursor,
                   pworker, ppages, pjobs, pcalled, presp, plog>>

\* ---- both builds ----
\* Promise.allSettled of the non-headless platforms resolves (l. 1056-1068)
PortalNonHeadless(answer) ==
    /\ ppc = "nonheadless"
    /\ pout' = pout \o answer
    /\ ppc' = "closing"
    /\ UNCHANGED <<envVars, pclock, pticks, pserved, preq, pkv, pbrowser, pcursor,
                   pworker, ptask, ppages, presults, pjobs, pcalled, presp, plog>>

FreshResponse(jobs, results, req, t) ==
    PortalResponse("fresh", TRUE, jobs, SourcesOf(results), t, queryOf(req),
                   maxDaysOf(req), locOf(req))

\* browser.close() of the finally block settles (l. 1071-1075), resolved
\* or rejected; it rejects only when the browser is gone, which counts as
\* closed, and so do its pages.  Then the catch block returns, or the
\* results are aggregated and stored (l. 1077-1099)
PortalBrowserClose(ok) ==
    /\ ppc \in {"closing", "failing"}
    /\ pbrowser' = "closed"
    /\ ppages' = [p \in DOMAIN ppages |-> IF ppages[p] = "open" THEN "closed" ELSE ppages[p]]
    /\ IF ppc = "failing"
       THEN /\ ppc' = "done"
            /\ presp' = ScraperFailed
            /\ plog' = Append(plog, "respond")
            /\ pjobs' = pjobs
            /\ pcalled' = pcalled
       ELSE LET jobs == AllJobs(pout, penv.build, maxDaysOf(preq), pclock)
            IN  /\ pjobs' = jobs
                /\ IF hasKv(penv)
                   THEN /\ ppc' = "kvset"
                        /\ pcalled' = pclock
                        /\ presp' = presp
                        /\ plog' = plog \o <<"merge", "store">>
                   ELSE /\ ppc' = "done"
                        /\ pcalled' = pcalled
                        /\ presp' = FreshResponse(jobs, pout, preq, pclock)
                        /\ plog' = plog \o <<"merge", "respond">>
    /\ UNCHANGED <<envVars, pclock, pticks, pserved, preq, pkv, pcursor, pworker, ptask,
                   presults, pout>>

\* kv.setex settles (l. 1099-1110): the entry was built, with its
\* scrapedAt, when kv.setex was called; then the response
PortalKvSet(ok) ==
    /\ ppc = "kvset"
    /\ pkv' = IF ok
              THEN Key(CacheEntry(pjobs, SourcesOf(pout), pcalled, queryOf(preq),
                                  maxDaysOf(preq), locOf(preq)), pclock)
              ELSE pkv
    /\ ppc' = "done"
    /\ presp' = FreshResponse(pjobs, pout, preq, pclock)
    /\ plog' = Append(plog, "respond")
    /\ UNCHANGED <<envVars, pclock, pticks, pserved, preq, pbrowser, pcursor, pworker,
                   ptask, ppages, presults, pout, pjobs, pcalled>>

\* the clock advances while kv.setex is in flight, by a second, and
\* between requests, by a second less than the life of the cache
\* (elsewhere time enters no decision of the handler)
PortalTick(d) ==
    /\ \/ ppc = "kvset" /\ d = 1
       \/ ppc = "done" /\ d = CACHE_TTL - 1
    /\ pticks < MaxPortalTicks
    /\ pticks' = pticks + 1
    /\ pclock' = pclock + d
    /\ UNCHANGED <<envVars, pserved, preq, pkv, pbrowser, pcursor, pworker, ptask, ppages,
                   presults, pout, pjobs, pcalled, presp, plog, ppc>>

PortalsNext ==
    \/ \E req \in PortalRequests : PortalStart(req)
    \/ \E ok \in BOOLEAN : PortalKvGet(ok)
    \/ \E ok \in BOOLEAN : PortalLaunch(ok)
    \/ \E w \in Workers : \E ok \in BOOLEAN : PoolNewPage(w, ok)
    \/ \E w \in Workers : \E reply \in {"ok", "throw", "gone"} : PoolSetUserAgent(w, reply)
    \/ \E w \in Workers : \E reply \in {"ok", "throw"} : PoolScrape(w, reply)
    \/ \E w \in Workers : \E ok \in BOOLEAN : PoolClose(w, ok)
    \/ \E ok \in BOOLEAN : OnePageNewPage(ok)
    \/ \E ok \in BOOLEAN : OnePageSetUserAgent(ok)
    \/ \E i \in DOMAIN ptask : \E ok \in BOOLEAN : OnePageScrape(i, ok)
    \/ \E answer \in NonHeadlessAnswers : PortalNonHeadless(answer)
    \/ \E ok \in BOOLEAN : PortalBrowserClose(ok)
    \/ \E ok \in BOOLEAN : PortalKvSet(ok)
    \/ \E d \in {1, CACHE_TTL - 1} : PortalTick(d)

SpecPortals == PortalsInit /\ [][PortalsNext]_vars

\* scrapeAllPortals alone, without a cache, with more tasks than workers
PoolNext ==
    \/ \E req \in PoolRequests : PortalStart(req)
    \/ \E ok \in BOOLEAN : PortalLaunch(ok)
    \/ \E w \in Workers : \E ok \in BOOLEAN : PoolNewPage(w, ok)
    \/ \E w \in Workers : \E reply \in {"ok", "throw", "gone"} : PoolSetUserAgent(w, reply)
    \/ \E w \in Workers : \E reply \in {"ok", "throw"} : PoolScrape(w, reply)
    \/ \E w \in Workers : \E ok \in BOOLEAN : PoolClose(w, ok)
    \/ \E ok \in BOOLEAN : OnePageNewPage(ok)
    \/ \E ok \in BOOLEAN : OnePageSetUserAgent(ok)
    \/ \E i \in DOMAIN ptask : \E ok \in BOOLEAN : OnePageScrape(i, ok)
    \/ \E answer \in NonHeadlessAnswers : PortalNonHeadless(answer)
    \/ \E ok \in BOOLEAN : PortalBrowserClose(ok)

SpecPool == PoolInit /\ [][PoolNext]_vars

\* ---- the cache of the handler (claims C11, C12) ----
\* the request being served is a GET of an enabled endpoint
Scraping == preq.method = "GET" /\ enabled(penv)
\* ... that may be answered from the cache
MayUseCache == Scraping /\ ~forceOf(preq) /\ hasKv(penv)
\* kv.get resolves (it does not reject) in this step
CacheRead == ppc = "kvget" /\ PortalKvGet(TRUE)
\* the key holds, unexpired, a list that is not empty
HoldsList == pkv.held /\ pclock < pkv.storedAt + CACHE_TTL /\ pkv.value.jobs # <<>>
\* ... scraped less than CACHE_TTL seconds ago
HoldsFreshList == HoldsList /\ pclock - pkv.value.scrapedAt < CACHE_TTL

IsPrefix(s, t) == Len(s) <= Len(t) /\ SubSeq(t, 1, Len(s)) = s
CachedSteps == <<"read", "respond">>
FailedSteps == <<"read", "scrape", "respond">>
FreshSteps == <<"read", "scrape", "merge", "store", "respond">>

\* C11 as the specification states it: a list that kv.setex stored less
\* than 3600 seconds ago (the key has not expired) is always the response
C11_AsStated ==
    [][ (MayUseCache /\ CacheRead /\ HoldsList) => presp'.kind = "cached" ]_vars

\* the steps of a request that may use the cache, in their order; the
\* browser is not launched before the cache was read and missed
CacheFirst ==
    MayUseCache =>
        /\ \/ IsPrefix(plog, CachedSteps)
           \/ IsPrefix(plog, FailedSteps)
           \/ IsPrefix(plog, FreshSteps)
        /\ (pbrowser # "none" => IsPrefix(<<"read", "scrape">>, plog))
        /\ (presp.kind = "cached" => plog = CachedSteps /\ pbrowser = "none")
        /\ (presp.kind = "failed" => plog = FailedSteps)
        /\ (presp.kind = "fresh" => plog = FreshSteps /\ pbrowser = "closed")
\* a list read from the cache is the response exactly when it is not empty
\* and was scraped less than CACHE_TTL seconds ago
HitAnswered ==
    (MayUseCache /\ CacheRead) =>
        IF HoldsFreshList
        THEN /\ presp' = CachedResponse(pkv.value)
             /\ ppc' = "done" /\ pbrowser' = "none"
        ELSE ppc' = "launch" /\ presp' = PortalNone
\* when kv.get or kv.setex settles, resolved or rejected, the request
\* goes on: to the scrape, or to its response
Unhindered ==
    /\ (MayUseCache /\ ppc = "kvget" /\ ppc' # ppc) => ppc' \in {"done", "launch"}
    /\ (MayUseCache /\ ppc = "kvset" /\ ppc' # ppc) =>
           ppc' = "done" /\ presp'.kind = "fresh" /\ presp'.jobs = pjobs

\* C11: for a GET request without force, of an enabled endpoint with KV,
\* the cache is read before the browser is launched; a non-empty list whose
\* scrapedAt is less than 3600 seconds old is the response (cached) and the
\* browser is never launched; otherwise the steps are scrape, then either
\* the failure response or merge, store, respond; a rejected kv.get or
\* kv.setex does not prevent the response
C11_CacheFirst == [][ CacheFirst' /\ HitAnswered /\ Unhindered ]_vars
\* a second request was answered from the cache with a list that is not empty
C11_Witness ==
    /\ MayUseCache /\ pserved >= 2
    /\ presp.kind = "cached" /\ presp.jobs # <<>> /\ pbrowser = "none"

\* the request being served is a GET with force=1 or force=true
Forced == preq.method = "GET" /\ preq.force \in {"1", "true"}
Logged(step) == \E k \in DOMAIN plog : plog[k] = step

\* C12 as the specification states it: a request with the force flag is
\* never answered without a scrape
C12_AsStated == (Forced /\ ppc = "done") => Logged("scrape")

\* C12: a GET request with force=1 or force=true never reads the cache and
\* is never answered from it, whatever the cache holds; when the endpoint
\* is enabled its first step is the scrape, and when it is not the answer
\* is the note that headless scraping is disabled
C12_ForceBypasses ==
    Forced =>
        /\ ppc # "kvget" /\ ~Logged("read")
        /\ presp.kind # "cached"
        /\ IF enabled(penv)
           THEN plog # <<>> /\ plog[1] = "scrape"
           ELSE ppc = "done" /\ presp = PortalDisabled /\ pbrowser = "none"
\* a forced request is scraping while the cache holds a fresh list
C12_Witness == Forced /\ HoldsFreshList /\ ppc = "launch" /\ plog = <<"scrape">>

\* ---- the pages of scrapeAllPortals (claims C13, C14) ----
InProgress == { i \in DOMAIN ptask : ptask[i].st \in {"newPage", "setUA", "running", "closing"} }
OpenPages == { p \in DOMAIN ppages : ppages[p] = "open" }

\* C13 as the specification states it: with the worker pool, at most 4
\* scrape tasks are in progress and at most 4 pages are open, whichever
\* tasks fail
C13_AsStated ==
    penv.build = "pool" =>
        /\ Cardinality(InProgress) <= concurrency
        /\ Cardinality(OpenPages) <= concurrency

\* the tasks that hold a page
Holding == { i \in DOMAIN ptask : ptask[i].st \in {"setUA", "running", "closing"} }
\* scrapeAllPortals has returned
Returned == ppc = "done" /\ presp.kind \in {"fresh", "failed"}

\* C14 as the specification states it: no page is held by two tasks at
\* once, the page opened for a task is closed once the task is done, and
\* the browser, if it was launched, is closed when the function returns
C14_AsStated ==
    /\ \A i, j \in Holding : i # j => ptask[i].page # ptask[j].page
    /\ \A i \in DOMAIN ptask :
           (ptask[i].st = "done" /\ ptask[i].page # 0) => ppages[ptask[i].page] = "closed"
    /\ Returned => pbrowser \in {"none", "closed"}

\* ======================================================================
\*          Properties of the OMDb proxy: keys, origins, counter
\* ======================================================================

\* the count usagePayload() reports at the time of the step, before and
\* after it
CountBefore == getDailyCount(omdbDaily, now)
CountAfter == getDailyCount(omdbDaily', now)
\* no call to OMDb is issued by the step
NoUpstreamCall == upstreamCalls' = upstreamCalls /\ pending' = pending

\* C15: with API_SECRET configured, a GET whose X-API-Key is missing or is
\* not the secret is answered 401, issues no upstream call, leaves the
\* daily count and the stats as they are and is not counted by the rate
\* limiter, usage=1 and stats=1 requests included
C15_KeyGate ==
    [][\A req \in Requests :
        (OmdbRequest(req) /\ req.method = "GET"
            /\ env.API_SECRET # "" /\ req.apiKey # env.API_SECRET)
        => /\ lastResp'.status = 401
           /\ NoUpstreamCall
           /\ CountAfter = CountBefore
           /\ omdbStats' = omdbStats
           /\ rateLimitMap' = rateLimitMap
           /\ admitLog' = admitLog]_vars
\* a request without the key has been answered 401 while the rate limit of
\* its caller was used up and a call to OMDb was pending
C15_Witness ==
    /\ lastResp.status = 401
    /\ env.RATE_LIMIT_PER_MINUTE = 2
    /\ Len(admitLog["ip1"]) = 2
    /\ \E c \in Calls : pending[c] > 0

\* req is let through by checkRateLimit at this step
PassesRateLimit(req) ==
    checkRateLimit(rateLimitMap, req.ip, env.RATE_LIMIT_PER_MINUTE, now).err = 0

\* C16: without an OMDB_API_KEY, a search, by-ID or poster GET that passes
\* the caller-key check and the rate limit is answered 503; no upstream
\* call is issued and the daily count is not incremented
C16_NotConfigured ==
    [][\A req \in Requests :
        (OmdbRequest(req) /\ IsDataGet(req) /\ env.OMDB_API_KEY = ""
            /\ PassesKeyCheck(req) /\ PassesRateLimit(req))
        => /\ lastResp'.status = 503
           /\ lastResp'.error = "OMDb proxy not configured"
           /\ NoUpstreamCall
           /\ CountAfter = CountBefore
           /\ omdbStats' = omdbStats]_vars
\* a request admitted by the rate limiter has been answered 503
C16_Witness ==
    /\ env.OMDB_API_KEY = ""
    /\ lastResp.status = 503
    /\ \E ip \in IPs : admitLog[ip] # <<>> /\ admitLog[ip][Len(admitLog[ip])] = now
    /\ upstreamCalls = 0

\* the values a configured OMDB_API_KEY may have, and the environment
\* with another key
Keys == {"k", "k2"}
WithKey(e, k) == [e EXCEPT !.OMDB_API_KEY = k]

\* C17: the OMDb key is not sent to the client: in the same state, with the
\* same request and the same upstream reply, an instance configured with
\* any other (non-empty) key sends the same response and leaves the same
\* globals behind -- so two runs that differ only in the key send the same
\* responses throughout
C17_KeyNotSent ==
    [][ env.OMDB_API_KEY # "" =>
        /\ served' # served =>
              \A req \in Requests :
                  OmdbRequest(req) =>
                      \A k \in Keys \ {env.OMDB_API_KEY} :
                          HandlerSync(req, WithKey(env, k), omdbDaily, omdbStats,
                                      rateLimitMap, now)
                          = HandlerSync(req, env, omdbDaily, omdbStats, rateLimitMap, now)
        /\ pending' # pending =>
              \A call \in Calls, up \in UpstreamReplies :
                  OmdbResume(call, up) =>
                      \A k \in Keys \ {env.OMDB_API_KEY} :
                          HandlerResume(call[1], up, call[2], WithKey(env, k), omdbDaily,
                                        now)
                          = lastResp' ]_vars
\* a failed fetch, whose error names the url with the key, has been
\* answered 502
C17_Witness ==
    /\ env.OMDB_API_KEY \in Keys
    /\ lastResp.status = 502
    /\ lastResp.error = "Upstream error"
    /\ upstreamCalls > 0

\* ALLOWED_ORIGINS is set and the origin of the request is not in the list
Unlisted(origin) ==
    /\ env.ALLOWED_ORIGINS # <<>>
    /\ origin # NoOrigin
    /\ \A k \in DOMAIN env.ALLOWED_ORIGINS : env.ALLOWED_ORIGINS[k] # origin
\* the response of the step does not let the origin in
Denies(origin) == lastResp'.acao \notin {Star, origin}

\* C18 as the specification states it: no response to a request of an
\* unlisted origin carries an Access-Control-Allow-Origin of '*' or of that
\* origin, be it the answer to OPTIONS, a successful GET or an error
C18_AsStated ==
    [][ /\ \A req \in Requests :
              (OmdbRequest(req) /\ Unlisted(req.origin) /\ lastResp' # NoReply)
              => Denies(req.origin)
        /\ \A call \in Calls, up \in UpstreamReplies :
              (OmdbResume(call, up) /\ Unlisted(call[2])) => Denies(call[2]) ]_vars

\* C19 as the specification states it: on the day a cold instance started,
\* the daily count is the number of requests issued to OMDb
C19_AsStated ==
    (omdbDaily.date = Today(StartTime) /\ omdbDaily.count < DAILY_LIMIT - 1)
        => omdbDaily.count = upstreamCalls

\* ---- a title OMDb does not know (claim C26) ----
\* OMDb answers a by-ID lookup with Response "False", or with a body that
\* is not JSON, and the handler responds
NotFoundUpstream(call) ==
    /\ call[1] = "detail"
    /\ \E up \in {"nojson", "false"} : OmdbResume(call, up)
\* C26: when the proxy handles a by-ID request (i = tt and digits) and the
\* reply of OMDb has Response "False", or is not parseable JSON, the proxy
\* answers HTTP 200 with error "Not found", never 404 or 500
C26_NotFound ==
    [][ \A call \in Calls :
            NotFoundUpstream(call) =>
                /\ lastResp'.status = 200
                /\ lastResp'.error = "Not found" ]_vars
\* a by-ID lookup has been answered "Not found"
C26_Witness == lastResp.status = 200 /\ lastResp.error = "Not found" /\ upstreamCalls > 0

\* ---- the rate limiter (claim C27) ----
\* the list rateLimitMap keeps for an IP ([] where it has none)
TimesOf(map, ip) == IF ip \in DOMAIN map THEN map[ip] ELSE <<>>
IsSuffix(s, t) == Len(s) <= Len(t) /\ SubSeq(t, Len(t) - Len(s) + 1, Len(t)) = s
\* of the admissions of an IP, any L + 1 in a row span more than the
\* window: no interval of 60 s holds more than L of them
SpreadOut(log, limit) ==
    \A ip \in DOMAIN log :
        \A i \in DOMAIN log[ip] :
            i + limit \in DOMAIN log[ip] =>
                log[ip][i + limit] - log[ip][i] > rateLimitWindowMs
\* the list of an IP never holds more than L entries
Bounded(map, limit) == \A ip \in DOMAIN map : Len(map[ip]) <= limit
\* a request checkRateLimit refuses (429, "Too many requests") records
\* nothing: the list of its IP only loses entries that have left the
\* window, and no admission is logged
RefusedRecordsNothing(req) ==
    (lastResp'.status = 429 /\ lastResp'.error = "Too many requests") =>
        /\ admitLog' = admitLog
        /\ IsSuffix(TimesOf(rateLimitMap', req.ip), TimesOf(rateLimitMap, req.ip))
\* a request leaves the lists and the admissions of the other IPs alone,
\* and is admitted or refused as it would be were its IP the only one
OtherIpsUntouched(req) ==
    /\ \A ip \in IPs \ {req.ip} :
           /\ TimesOf(rateLimitMap', ip) = TimesOf(rateLimitMap, ip)
           /\ admitLog'[ip] = admitLog[ip]
    /\ LET alone == [ip \in DOMAIN rateLimitMap \cap {req.ip} |-> rateLimitMap[ip]]
       IN  checkRateLimit(alone, req.ip, env.RATE_LIMIT_PER_MINUTE, now).err
               = checkRateLimit(rateLimitMap, req.ip, env.RATE_LIMIT_PER_MINUTE, now).err

\* C27: with RATE_LIMIT_PER_MINUTE = L > 0 and a clock that does not go
\* back, after any sequence of requests: for every IP every interval of
\* 60 s holds at most L admitted requests; a request refused with 429
\* records no timestamp; the list of an IP never holds more than L
\* entries; requests of one IP never change the admission of another
C27_RateLimiter ==
    [][ env.RATE_LIMIT_PER_MINUTE > 0 =>
            /\ SpreadOut(admitLog', env.RATE_LIMIT_PER_MINUTE)
            /\ Bounded(rateLimitMap', env.RATE_LIMIT_PER_MINUTE)
            /\ \A req \in Requests :
                   OmdbRequest(req) => RefusedRecordsNothing(req) /\ OtherIpsUntouched(req) ]_vars
\* an IP has used its two admissions and is refused, while the other IP
\* has been admitted too
C27_Witness ==
    /\ env.RATE_LIMIT_PER_MINUTE = 2
    /\ lastResp.status = 429 /\ lastResp.error = "Too many requests"
    /\ \E ip \in IPs : \E other \in IPs \ {ip} :
           /\ Len(TimesOf(rateLimitMap, ip)) = 2
           /\ TimesOf(rateLimitMap, other) # <<>>

\* ---- the sources of a snapshot (claim C20) ----
\* the number of listings of `jobs` from source s
ListingsFrom(jobs, s) == Cardinality({ i \in DOMAIN jobs : jobs[i].source = s })
RECURSIVE SumOver(_, _)
SumOver(f, dom) ==
    IF dom = {} THEN 0
    ELSE LET s == CHOOSE x \in dom : TRUE IN f[s] + SumOver(f, dom \ {s})
\* the response is a snapshot (the answer to OPTIONS has no body)
IsSnapshot == jpc = "done" /\ jresp.status = 200 /\ jreq.method # "OPTIONS"

\* C20: every snapshot carries sources and sourceCounts that agree with its
\* listings: sourceCounts[s] is the number of listings from s, for exactly
\* the sources that have one; the counts sum to count, the length of jobs;
\* sources lists those sources once each in ascending order -- also when
\* there is no listing at all
C20_SourcesAgree ==
    IsSnapshot =>
        LET jobs == jresp.jobs
            from == { jobs[i].source : i \in DOMAIN jobs }
        IN  /\ DOMAIN jresp.sourceCounts = from
            /\ \A s \in from : jresp.sourceCounts[s] = ListingsFrom(jobs, s)
            /\ jresp.count = Len(jobs)
            /\ SumOver(jresp.sourceCounts, from) = jresp.count
            /\ { jresp.sources[k] : k \in DOMAIN jresp.sources } = from
            /\ Len(jresp.sources) = Cardinality(from)
            /\ \A k \in 1..(Len(jresp.sources) - 1) :
                   StringBefore(jresp.sources[k], jresp.sources[k + 1])
\* a snapshot whose listings come from several sources, one of them more
\* than once, and whose first listing is not from the first source
C20_Witness ==
    /\ IsSnapshot
    /\ Len(jresp.sources) >= 2
    /\ \E s \in DOMAIN jresp.sourceCounts : jresp.sourceCounts[s] >= 2
    /\ jresp.jobs[1].source # jresp.sources[1]

\* ======================================================================
\*        Properties that span handlers, and the later properties
\* ======================================================================

\* the two aggregation endpoints that apply a freshness window, each
\* serving its requests on an instance of its own
AggregatorsNext == JobsNext \/ PoolNext
SpecAggregators == (JobsInit \/ PoolInit) /\ [][AggregatorsNext]_vars

\* scrapeAllPortals has answered with a fresh result
Scraped200 == ppc = "done" /\ presp.kind = "fresh"
\* the listings scrapeAllPortals hands to filterByDate
BeforeDateFilter ==
    IF penv.build = "pool" THEN dedupeByUrl(Aggregate(pout), {}) ELSE Aggregate(pout)
Unparsed(job) == parseDate(job.date, pclock) = <<>>
Holds(jobs, job) == \E i \in DOMAIN jobs : jobs[i] = job

\* C21 as the specification states it: in the output of jobs-snapshot and of
\* headless-scrape-all-portals no listing has a date that cannot be parsed
C21_AsStated ==
    /\ Served =>
          \A i \in DOMAIN jresp.jobs : parseDateLike(jresp.jobs[i].date, jclock) # <<>>
    /\ Scraped200 => \A i \in DOMAIN presp.jobs : ~Unparsed(presp.jobs[i])

\* C21: in jobs-snapshot a listing whose date cannot be parsed never appears
\* in the output (a listing without any date was given the time of the
\* request by normalizeJob); in headless-scrape-all-portals filterByDate
\* keeps every listing whose date is missing or cannot be parsed, and drops
\* only listings whose parsed date is older than the window
C21_UnparsedDates ==
    /\ Served =>
          /\ \A i \in DOMAIN jresp.jobs :
                 parseDateLike(jresp.jobs[i].date, jclock) # <<>>
          /\ \A k \in DOMAIN jjobs :
                 parseDateLike(jjobs[k].date, jclock) = <<>> => ~Holds(jresp.jobs, jjobs[k])
    /\ Scraped200 =>
          /\ \A k \in DOMAIN BeforeDateFilter :
                 Unparsed(BeforeDateFilter[k]) => Holds(presp.jobs, BeforeDateFilter[k])
          /\ \A i \in DOMAIN presp.jobs :
                 \/ Unparsed(presp.jobs[i])
                 \/ parseDate(presp.jobs[i].date, pclock)[1]
                        >= pclock - presp.days * DaySec
\* scrapeAllPortals has returned a listing whose date cannot be parsed and
\* one without a date, and has dropped a listing that is too old
C21_Witness ==
    /\ Scraped200
    /\ \E i \in DOMAIN presp.jobs : presp.jobs[i].date = BadDate
    /\ \E i \in DOMAIN presp.jobs : presp.jobs[i].date = Undated
    /\ \E k \in DOMAIN BeforeDateFilter : ~Holds(presp.jobs, BeforeDateFilter[k])

\* ======================================================================
\*   jobs-scraper-background and jobs-refresh: the key jobs:scraped:all
\*   (src/api/jobs-scraper-background.js; src/api/jobs-cached.js l. 87-175;
\*    read back by jobs-snapshot, src/unnamed/part_005 l. 370)
\*   One unit of time is a second.  jobs-scraper-background declares its
\*   own CACHE_TTL (l. 13) with the value of the one of part_003.
\* ======================================================================

\* process.env
RefreshEnv(kv, headless) == [KV |-> kv, ENABLE_HEADLESS |-> headless]
RefreshEnvs == { RefreshEnv(TRUE, "1"), RefreshEnv(TRUE, ""), RefreshEnv(FALSE, "1") }

\* a request: the handler it is routed to, its method, its Host header
RefreshRequest(handler, m, host) == [method |-> m, host |-> host, handler |-> handler]
RefreshRequests ==
    { RefreshRequest(h, "GET", "app.example") : h \in {"background", "refresh"} }
    \cup { RefreshRequest(h, "OPTIONS", "app.example") : h \in {"background", "refresh"} }
    \cup { RefreshRequest(h, "GET", "") : h \in {"background", "refresh"} }

\* what `await fetch(...)` followed by `await response.json()` gives: it
\* throws, or it is null, or it is an object with ok, jobs (an array or
\* not), sources and count
Upstream(kind, ok, array, jobs, sources, count) ==
    [count |-> count, kind |-> kind, jobs |-> jobs, ok |-> ok, sources |-> sources,
     array |-> array]
Thrown == Upstream("throw", FALSE, FALSE, <<>>, <<>>, 0)
NullBody == Upstream("null", FALSE, FALSE, <<>>, <<>>, 0)
Body(ok, array, jobs, sources, count) == Upstream("json", ok, array, jobs, sources, count)
UpstreamBodies ==
    { Thrown, NullBody,
      Body(FALSE, TRUE, <<"job1">>, <<"linkedin">>, 1),
      Body(TRUE, FALSE, <<>>, <<>>, 0),
      Body(TRUE, TRUE, <<>>, <<>>, 0),
      Body(TRUE, TRUE, <<"job1", "job2">>, <<"linkedin">>, 0),
      Body(TRUE, TRUE, <<"job3">>, <<>>, 1) }

\* (mutant of Usable: the ok flag of the reply is not looked at)
UsableWhateverOk(x) == x.kind = "json" /\ x.array
\* background l. 55, jobs-cached l. 122 and 136: x && x.ok && Array.isArray(x.jobs)
Usable(x) == x.kind = "json" /\ x.ok /\ x.array

\* the object jobs-scraper-background writes (l. 64-69)
BackgroundEntry(multi, t) ==
    [count |-> IF multi.count # 0 THEN multi.count ELSE Len(multi.jobs), jobs |-> multi.jobs, sources |-> multi.sources,
     scrapedAt |-> t]
\* the object jobs-refresh writes (jobs-cached.js l. 143-148; sourceCounts
\* is a tally of the same listings and is left out)
RefreshEntry(snapData, t) ==
    [jobs |-> snapData.jobs, sources |-> snapData.sources, fetchedAt |-> t]

\* the key: absent, or a value, the time it was stored at and the expiry
\* it was stored with: <<seconds>> by kv.setex, <<>> (none) by kv.set
StoredKey(value, storedAt, ttl) ==
    [held |-> TRUE, value |-> value, storedAt |-> storedAt, ttl |-> ttl]
\* kv.setex(CACHE_KEY, CACHE_TTL, value) (background l. 64)
setex(value, t) == StoredKey(value, t, <<CACHE_TTL>>)
\* kv.set(key, value) (jobs-cached.js l. 143)
set(value, t) == StoredKey(value, t, <<>>)
\* kv.get at time t: <<>> for null
Expired(kv, t) == kv.ttl # <<>> /\ t >= kv.storedAt + kv.ttl[1]
kvGetAll(kv, t) == IF kv.held /\ ~Expired(kv, t) THEN <<kv.value>> ELSE <<>>

\* what a kv.get returned: the value, and how long it had been stored
ReadBack(value, age) == [value |-> value, age |-> age]
NothingReadBack == ReadBack(<<>>, 0)

\* responses
RefreshResponse(status, ok, jobs, note) ==
    [status |-> status, jobs |-> jobs, ok |-> ok, note |-> note]
RefreshNone == RefreshResponse(0, FALSE, <<>>, "none")
RefreshEnded == RefreshResponse(200, FALSE, <<>>, "ended")
NoBaseUrl == RefreshResponse(500, FALSE, <<>>, "Cannot determine base URL")
HeadlessDisabled == RefreshResponse(200, FALSE, <<>>, "Headless scraping disabled")
KvNotConfigured == RefreshResponse(200, FALSE, <<>>, "Vercel KV not configured")
MultiFailed == RefreshResponse(200, FALSE, <<>>, "Multi-scraper failed")
BackgroundFailed == RefreshResponse(500, FALSE, <<>>, "Background scraper failed")
BackgroundSaved(entry) == RefreshResponse(200, TRUE, entry.jobs, "cached")
RefreshFailed == RefreshResponse(500, FALSE, <<>>, "Refresh failed")
RefreshDone(jobs, fromSnapshot) ==
    RefreshResponse(200, TRUE, jobs, IF fromSnapshot THEN "snapshot" ELSE "scraped")

RefreshInit ==
    /\ renv \in RefreshEnvs
    /\ rclock = PortalsEpoch
    /\ rticks = 0
    /\ rserved = 0
    /\ rpc = "idle"
    /\ rreq = RefreshRequest("background", "GET", "")
    /\ rheld = <<>>
    /\ rkv = NoKey
    /\ rresp = RefreshNone
    /\ rread = NothingReadBack
    /\ OmdbParked
    /\ JobsParked
    /\ PortalsParked

refreshFrame == <<omdbVars, jobsVars, portalVars, renv>>

\* the handler replies and returns
RefreshReply(resp) ==
    /\ rresp' = resp
    /\ rpc' = "idle"
    /\ rheld' = <<>>

\* jobs-scraper-background up to its first await (l. 24-53)
BackgroundSync(req) ==
    IF req.method = "OPTIONS" THEN RefreshReply(RefreshEnded)
    ELSE IF renv.ENABLE_HEADLESS # "1" THEN RefreshReply(HeadlessDisabled)
    ELSE IF ~renv.KV THEN RefreshReply(KvNotConfigured)
    ELSE IF req.host = "" THEN RefreshReply(NoBaseUrl)
    ELSE rpc' = "multi" /\ rresp' = RefreshNone /\ rheld' = <<>>

\* jobs-refresh up to its first await (jobs-cached.js l. 94-121, 129-134)
RefreshSync(req) ==
    IF req.method = "OPTIONS" THEN RefreshReply(RefreshEnded)
    ELSE IF req.host = "" THEN RefreshReply(NoBaseUrl)
    ELSE /\ rpc' = IF renv.ENABLE_HEADLESS = "1" THEN "scrape" ELSE "snapshot"
         /\ rresp' = RefreshNone
         /\ rheld' = <<>>

\* a request arrives at one of the two handlers
RefreshStart(req) ==
    /\ rpc = "idle"
    /\ rserved < MaxRequests
    /\ rserved' = rserved + 1
    /\ rreq' = req
    /\ IF req.handler = "background" THEN BackgroundSync(req) ELSE RefreshSync(req)
    /\ UNCHANGED <<refreshFrame, rclock, rticks, rkv, rread>>

\* jobs-scraper-background: headless-scrape-multi has answered (l. 52-69);
\* the argument of kv.setex is built before the call is awaited
BackgroundFetched(multi) ==
    /\ rpc = "multi"
    /\ IF multi.kind = "throw" THEN RefreshReply(BackgroundFailed)
       ELSE IF ~Usable(multi) THEN RefreshReply(MultiFailed)
       ELSE /\ rpc' = "setex"
            /\ rheld' = BackgroundEntry(multi, rclock)
            /\ rresp' = RefreshNone
    /\ UNCHANGED <<refreshFrame, rclock, rticks, rserved, rreq, rkv, rread>>

\* jobs-scraper-background: kv.setex settles (l. 64-78, catch l. 79-85)
BackgroundSetex(ok) ==
    /\ rpc = "setex"
    /\ IF ok
       THEN rkv' = setex(rheld, rclock) /\ RefreshReply(BackgroundSaved(rheld))
       ELSE rkv' = rkv /\ RefreshReply(BackgroundFailed)
    /\ UNCHANGED <<refreshFrame, rclock, rticks, rserved, rreq, rread>>

\* jobs-refresh: headless-scrape-all-portals has answered (l. 119-128); with
\* no listing from it the snapshot is fetched (l. 130-134)
RefreshScraped(result) ==
    /\ rpc = "scrape"
    /\ IF Usable(result) /\ result.jobs # <<>>
       THEN RefreshReply(RefreshDone(result.jobs, FALSE))
       ELSE rpc' = "snapshot" /\ rresp' = RefreshNone /\ rheld' = <<>>
    /\ UNCHANGED <<refreshFrame, rclock, rticks, rserved, rreq, rkv, rread>>

\* jobs-refresh: jobs-snapshot has answered (l. 134-160)
RefreshSnapshot(snapData) ==
    /\ rpc = "snapshot"
    /\ IF snapData.kind = "throw" THEN RefreshReply(RefreshFailed)
       ELSE IF ~Usable(snapData) THEN RefreshReply(RefreshDone(<<>>, FALSE))
       ELSE IF ~renv.KV THEN RefreshReply(RefreshDone(snapData.jobs, TRUE))
       ELSE /\ rpc' = "set"
            /\ rheld' = RefreshEntry(snapData, rclock)
            /\ rresp' = RefreshNone
    /\ UNCHANGED <<refreshFrame, rclock, rticks, rserved, rreq, rkv, rread>>

\* jobs-refresh: kv.set settles; a failure is swallowed (l. 143-149, 163)
RefreshSet(ok) ==
    /\ rpc = "set"
    /\ rkv' = IF ok THEN set(rheld, rclock) ELSE rkv
    /\ RefreshReply(RefreshDone(rheld.jobs, TRUE))
    /\ UNCHANGED <<refreshFrame, rclock, rticks, rserved, rreq, rread>>

\* jobs-snapshot reads the key (part_005 l. 370)
SnapshotGet ==
    /\ rpc # "off"
    /\ renv.KV
    /\ LET cached == kvGetAll(rkv, rclock)
       IN  rread' = IF cached = <<>> THEN NothingReadBack
                    ELSE ReadBack(cached, rclock - rkv.storedAt)
    /\ UNCHANGED <<refreshFrame, rclock, rticks, rserved, rpc, rreq, rheld, rkv, rresp>>

\* time passes
RefreshTick(d) ==
    /\ rticks < MaxPortalTicks
    /\ rticks' = rticks + 1
    /\ rclock' = rclock + d
    /\ UNCHANGED <<refreshFrame, rserved, rpc, rreq, rheld, rkv, rresp, rread>>

RefreshNext ==
    \/ \E req \in RefreshRequests : RefreshStart(req)
    \/ \E multi \in UpstreamBodies : BackgroundFetched(multi)
    \/ \E ok \in BOOLEAN : BackgroundSetex(ok)
    \/ \E result \in UpstreamBodies : RefreshScraped(result)
    \/ \E snapData \in UpstreamBodies : RefreshSnapshot(snapData)
    \/ \E ok \in BOOLEAN : RefreshSet(ok)
    \/ SnapshotGet
    \/ \E d \in {1, CACHE_TTL} : RefreshTick(d)

SpecRefresh == RefreshInit /\ [][RefreshNext]_vars

\* either cache: headless-scrape-all-portals with its key, or the two
\* handlers that write jobs:scraped:all
CachesNext == PortalsNext \/ RefreshNext
SpecCaches == (PortalsInit \/ RefreshInit) /\ [][CachesNext]_vars

\* ---- the expiry of what is cached (claim C22) ----
\* C22 (as stated): every aggregation result held in the KV store, whether
\* written by jobs-scraper-background, by headless-scrape-all-portals or by
\* jobs-refresh, was stored with an expiry of CACHE_TTL (3600) seconds, and
\* no result read back from the store had been stored for more than
\* CACHE_TTL seconds
C22_AsStated ==
    /\ ppc # "off" =>
           (kvRead(pkv, pclock) # <<>> => pclock - pkv.storedAt <= CACHE_TTL)
    /\ rpc # "off" =>
           /\ (rkv.held => rkv.ttl = <<CACHE_TTL>>)
           /\ (rread.value # <<>> => rread.age <= CACHE_TTL)

\* ---- a refresh that fails (claim C29) ----
\* scrapeAllPortals could not launch the browser: from that step to the
\* response of the request the key is not written, and no kv.setex is called
LaunchFailureKeeps ==
    (ppc # "off" /\ (ppc = "failing" \/ ppc' = "failing" \/ presp'.kind = "failed")) =>
        /\ pkv' = pkv
        /\ ppc' \in {"failing", "done"}
        /\ ~Logged("store")'
\* jobs-scraper-background receives a reply of headless-scrape-multi that
\* is not ok: it answers ok:false at once, and the key is not written
NotOkReplyKeeps ==
    \A multi \in UpstreamBodies :
        (rpc = "multi" /\ ~(multi.kind = "json" /\ multi.ok) /\ BackgroundFetched(multi)) =>
            /\ rkv' = rkv
            /\ rpc' = "idle"
            /\ ~rresp'.ok

\* C29: a failed refresh never overwrites the cache: when scrapeAllPortals
\* fails to launch the browser, and when jobs-scraper-background receives a
\* multi-scraper reply that is not ok, no KV write is performed and the
\* entry cached before is left unchanged
C29_FailedRefreshKeepsCache == [][ LaunchFailureKeeps /\ NotOkReplyKeeps ]_vars

\* jobs-scraper-background has answered a reply that was not ok while the
\* key held the listings of an earlier refresh
C29_Witness ==
    /\ rpc = "idle" /\ rresp = MultiFailed
    /\ rkv.held /\ rkv.value.jobs # <<>>
\* scrapeAllPortals has failed to launch while its key held listings
LaunchFailedOverCache ==
    /\ ppc = "done" /\ presp.kind = "failed"
    /\ pkv.held /\ pkv.value.jobs # <<>>

\* ---- how long a jobs-snapshot request waits (claims C23, C24) ----
\* the time the handler of jobs-snapshot has waited for its sources
WaitedInAll == jwaited.before + jwaited.current
\* C23 (as stated): each jobs-snapshot request is bounded by one
\* request-level timeout: however slow the sources are, the handler has
\* never waited for them longer than one timeout (the longest the code
\* gives to a fetch, the 35 s of headless-scrape-multi)
C23_AsStated == jpc # "off" => WaitedInAll <= TimeoutOf("multi")

\* the awaits of the handler that are fetches of sources
FetchAwaits == FETCHED \cup {"rss"}
\* the fetch of a source settles and only then the fetch of another starts
StartsAfterAnother == jpc \in FetchAwaits /\ jpc' \in FetchAwaits /\ jpc' # jpc
\* C24 (as stated): in jobs-snapshot all upstream fetches of one request
\* run concurrently, each with its own timeout: no fetch of a source is
\* held back until the fetch of another source has completed
C24_AsStated == [][ ~StartsAfterAnother ]_vars

\* ---- the ids of a response (claim C25) ----
\* C25 (as stated): in every jobs-snapshot response no two listings have
\* the same id, whether the id comes from the upstream record, from
\* Math.random() where the record has none, or from the url with every
\* non-alphanumeric character replaced by '_'
C25_AsStated ==
    Served =>
        \A i, k \in DOMAIN jresp.jobs : i # k => jresp.jobs[i].id # jresp.jobs[k].id

\* ---- the worker pool of scrapeAllPortals (claim C28) ----
\* how far a task has got
Stage(st) ==
    CASE st = "waiting" -> 0
      [] st = "newPage" -> 1
      [] st = "setUA" -> 2
      [] st = "running" -> 3
      [] st = "closing" -> 4
      [] st = "done" -> 5
\* the workers that hold task i
HoldersOf(i) == { w \in Workers : pworker[w] = i }
\* the tasks started are those below the cursor; a task in progress is
\* held by one worker, a task not started or finished by none
StartedByOne ==
    /\ pcursor \in 0..Len(ptask)
    /\ \A i \in DOMAIN ptask :
           /\ ptask[i].st # "waiting" <=> i <= pcursor
           /\ Cardinality(HoldersOf(i)) = IF ptask[i].st \in {"waiting", "done"} THEN 0 ELSE 1
\* the result of a finished task, what it scraped or the empty error
\* result, is at the index of the task, and nothing else is
AtOwnIndex ==
    \A i \in DOMAIN ptask :
        /\ ptask[i].st = "done" <=> presults[i] # <<>>
        /\ presults[i] # <<>> => presults[i][1] \in {Scraped(i), Unknown(i)}
\* the pool is left exactly when every task has finished, and the results
\* are then merged in the order of the tasks
Terminates ==
    /\ ppc = "pool" => \E i \in DOMAIN ptask : ptask[i].st # "done"
    /\ (ppc # "pool" /\ pcursor > 0) =>
           /\ \A i \in DOMAIN ptask : ptask[i].st = "done"
           /\ Len(pout) >= Len(ptask)
           /\ \A i \in DOMAIN ptask : pout[i] = presults[i][1]
\* within a request no task is started again or moves back, and a worker
\* keeps its task until the task has finished
NeverRestarted ==
    pserved' = pserved =>
        /\ pcursor' >= pcursor
        /\ \A i \in DOMAIN ptask : Stage(ptask'[i].st) >= Stage(ptask[i].st)
        /\ \A w \in Workers :
               (pworker[w] # 0 /\ ptask'[pworker[w]].st # "done") => pworker'[w] = pworker[w]

\* C28: in the worker pool of scrapeAllPortals, for every interleaving of
\* the 4 workers and every set of tasks that throw, each headless task is
\* started exactly once by exactly one worker, its result (or an empty
\* error result) is stored at the task's own index, and the pool
\* terminates once all tasks have finished; so the merged order does not
\* depend on the order in which the tasks complete
C28_PoolOrder ==
    [][ penv.build = "pool" =>
            (StartedByOne' /\ AtOwnIndex' /\ Terminates' /\ NeverRestarted) ]_vars
\* the last task has thrown and finished while the first is still running
C28_Witness ==
    /\ penv.build = "pool" /\ ppc = "pool"
    /\ Len(ptask) > concurrency
    /\ presults[Len(ptask)] = <<Unknown(Len(ptask))>>
    /\ ptask[1].st = "running"

\* ---- what a cache hit answers (claim C30) ----
\* what kv.setex stores has a query, a location and a number of days that
\* are not falsy (so `cached.query || q` and the like, l. 1166-1168, give
\* the stored values)
StoredWhole ==
    pkv.held =>
        pkv.value.query # "" /\ pkv.value.location # "" /\ pkv.value.days # 0
\* a hit answers with the list and the query, days and location stored
HitAnswersStored ==
    (ppc = "kvget" /\ presp'.kind = "cached") =>
        /\ pkv.held
        /\ presp'.jobs = pkv.value.jobs
        /\ presp'.query = pkv.value.query
        /\ presp'.days = pkv.value.days
        /\ presp'.location = pkv.value.location
        /\ pkv' = pkv
\* the one key changes only when the kv.setex of a scrape succeeds, and
\* then holds that scrape in place of what it held
LastScrapeWins ==
    pkv' # pkv =>
        /\ ppc = "kvset" /\ presp'.kind = "fresh"
        /\ pkv' = Key(CacheEntry(presp'.jobs, presp'.sources, pcalled, presp'.query,
                                 presp'.days, presp'.location), pclock)

\* C30: on a cache hit headless-scrape-all-portals returns the stored list
\* whatever q, days and location the request has, and reports the stored
\* query, days and location, not the request's; the cache is one entry
\* under one key, so the last successful scrape is what every later
\* request that is not forced gets until the entry expires
C30_HitReportsStored ==
    [][ ppc # "off" => (StoredWhole' /\ HitAnswersStored /\ LastScrapeWins) ]_vars
\* a request was answered from the cache with the query, days and location
\* of the scrape that filled it, which are not its own
C30_Witness ==
    /\ ppc = "done" /\ presp.kind = "cached"
    /\ presp.query # queryOf(preq)
    /\ presp.days # maxDaysOf(preq)
    /\ presp.location # locOf(preq)

====
